---- MODULE Spec2Model ----
(***************************************************************************)
(* Verification model of the scene-command pipeline:                       *)
(*   CommandQueue (js/CommandQueue.js), CommandDispatcher                  *)
(*   (js/CommandDispatcher.js), CodeEvaluator (js/utils/CodeEvaluator.js), *)
(*   EnvironmentManager (unnamed/part_000), NaturalLanguageRouter          *)
(*   (unnamed/part_001) and NaturalLanguageProcessor                       *)
(*   (js/NaturalLanguageProcessor.js).                                     *)
(*                                                                         *)
(* The program is single threaded (browser event loop): every action below *)
(* is one run-to-completion segment of a handler, from its entry or from   *)
(* the resumption of an await / timer / animation frame to the next        *)
(* suspension point.                                                       *)
(***************************************************************************)
EXTENDS Integers, Sequences, FiniteSets, TLC

\* ------------------------------------------------------------------ bounds
MaxCmds == 3          \* commands enqueued in one behaviour
MaxListeners == 2     \* queue-empty listeners registered in one behaviour
DelayStepMs == 75     \* time that passes in one step of the _delay timer
MaxObjs == 4          \* scene groups created in one behaviour
MaxOthers == 2        \* rocks, platforms, islands and clouds created in one behaviour
MaxFades == 2         \* fade-out animations started in one behaviour
MaxSpawn == 2         \* largest count given to spawnTreeType
FrameMs == 400        \* wall-clock time that passes between two observations
MaxReqs == 2          \* processInput calls made in one behaviour
ClockMs == 5000       \* step of the clock the request timers are read against
MaxWords == 3         \* longest user text given to determineRequestType, in words
MaxText == 4          \* longest LLM response text given to the parsers, in tokens
MaxLen == 3           \* longest command input string, in tokens

\* --------------------------------------------------------------- constants
DefaultDelay == 150   \* CommandQueue.defaultDelay (ms)
Null == -1            \* stands for the JavaScript value null / undefined
FadeDuration == 800   \* animationDuration of fadeOutAndRemoveTrees (ms)
RouterTimeoutMs == 15000   \* timer of the AbortController in callOpenAI
SafetyTimeoutMs == 20000   \* spinner timeout of processInput
FallbackColor == 9358054   \* 0x8ecae6, colour of the default mesh

\* ------------------------------------------------------------------ inputs
CmdKinds == {"ok", "unknown", "throws"}   \* registered / unregistered / handler throws
DelayArgs == {Null, 0, 50}                \* the delay argument of addCommand
ListenerKinds == {"ok", "throws"}         \* a listener that returns / that throws
Positions == {"p1", "p2"}                 \* positions {x, y, z} given to add* calls
OtherKinds == {"rock", "platform", "island", "cloud"}

VARIABLES
    queue,          \* CommandQueue.queue: sequence of queued commands
    isExecuting,    \* CommandQueue.isExecuting
    callbacks,      \* CommandQueue.onQueueEmptyCallbacks
    drainPc,        \* position of the executeAll coroutine: "idle" | "delay"
    delayTimer,     \* the pending _delay timer of executeAll
    nextCmd,        \* identity given to the next command object pushed
    qlog,           \* observable events of the queue, in order (history)
    run,            \* the current / last executeAll run (history)
    trees,          \* EnvironmentManager.trees
    buildings,      \* EnvironmentManager.buildings
    others,         \* EnvironmentManager.rocks / platforms / floatingIslands / clouds
    scene,          \* the groups attached to the THREE.Scene
    idCounter,      \* EnvironmentManager.treeIdCounter, ..., buildingIdCounter
    nextObj,        \* identity of the next THREE.Group attached to the scene
    fades,          \* the fadeOutAndRemoveTrees animations in flight (closures)
    nextFade,       \* identity of the next fade-out closure
    allTrees,       \* every tree record ever created (history)
    evalIn,         \* the snippet and context a CodeEvaluator caller holds
    evalOut,        \* what the CodeEvaluator calls on evalIn produced, in order
    procBusy,       \* NaturalLanguageProcessor.isProcessing
    routerBusy,     \* NaturalLanguageRouter.isProcessing
    apiKey,         \* NaturalLanguageRouter.apiKey is a non-empty string
    storedKey,      \* CONFIG.openai.apiKey or localStorage holds a key
    req,            \* the processInput calls: position, timers, callbacks received
    nextReq,        \* number of the next processInput call
    mgrCalls,       \* manager operations applied by the processor, in order (history)
    commandMap,     \* CommandDispatcher.commandMap: own properties, name -> handler
    dcall,          \* the last executeCommand call and its outcome (history)
    fnIn,           \* the function a caller is about to call, and its argument
    fnOut,          \* what that call returned, <<>> before the call
    lastOp          \* the operation that ran last and what it returned

queueVars == <<queue, isExecuting, callbacks, drainPc, delayTimer, nextCmd, qlog, run>>
envVars == <<trees, buildings, others, scene, idCounter, nextObj, fades, nextFade, allTrees>>
evalVars == <<evalIn, evalOut>>
nlpVars == <<procBusy, routerBusy, apiKey, storedKey, req, nextReq, mgrCalls>>
dispVars == <<commandMap, dcall>>
fnVars == <<fnIn, fnOut>>
nonQueueVars == <<envVars, evalVars, nlpVars, dispVars, fnVars>>
nonEnvVars == <<queueVars, evalVars, nlpVars, dispVars, fnVars, lastOp>>
nonEvalVars == <<queueVars, envVars, nlpVars, dispVars, fnVars>>
nonNlpVars == <<queueVars, envVars, evalVars, dispVars, fnVars>>
nonDispVars == <<queueVars, envVars, evalVars, nlpVars, fnVars, lastOp>>
nonFnVars == <<queueVars, envVars, evalVars, nlpVars, dispVars, lastOp>>
vars == <<queue, isExecuting, callbacks, drainPc, delayTimer, nextCmd, qlog, run,
          trees, buildings, others, scene, idCounter, nextObj, fades, nextFade, allTrees,
          evalIn, evalOut,
          procBusy, routerBusy, apiKey, storedKey, req, nextReq, mgrCalls,
          commandMap, dcall, fnIn, fnOut, lastOp>>

Range(s) == {s[i] : i \in 1..Len(s)}

\* ================================================================ dispatcher
\* CommandDispatcher.executeCommand: true iff the name is registered and its
\* handler returns normally; an unknown name and a throwing handler give false.
ExecuteCommand(kind) == kind = "ok"

\* A command input string is a sequence of tokens: a word (characters other
\* than white space and colon), a white-space character, or a colon.
Words == {"day_sky", "x", "toString"}
Tokens == Words \cup {" ", ":"}
RECURSIVE StringsOfLen(_)
StringsOfLen(n) ==
    IF n = 0 THEN {<<>>}
    ELSE {Append(str, t) : str \in StringsOfLen(n - 1), t \in Tokens}
CommandInputs == UNION {StringsOfLen(n) : n \in 0..MaxLen}

\* String.prototype.trim
RECURSIVE TrimStart(_)
TrimStart(str) ==
    IF Len(str) > 0 /\ Head(str) = " " THEN TrimStart(Tail(str)) ELSE str
RECURSIVE TrimEnd(_)
TrimEnd(str) ==
    IF Len(str) > 0 /\ str[Len(str)] = " " THEN TrimEnd(SubSeq(str, 1, Len(str) - 1)) ELSE str
Trim(str) == TrimEnd(TrimStart(str))

\* String.prototype.split(':')
RECURSIVE Split(_)
Split(str) ==
    IF \A i \in 1..Len(str) : str[i] # ":"
    THEN <<str>>
    ELSE LET i == CHOOSE k \in 1..Len(str) :
                      str[k] = ":" /\ \A j \in 1..(k - 1) : str[j] # ":"
         IN <<SubSeq(str, 1, i - 1)>> \o Split(SubSeq(str, i + 1, Len(str)))

\* the parameter of a parsed command: <<p>> for the string p, <<>> for null
NullParameter == <<>>

\* CommandDispatcher.parseCommandInput
ParseCommandInput(commandInput) ==
    LET parts == Split(commandInput)
    IN [commandName |-> Trim(parts[1]),
        parameter |-> IF Len(parts) > 1 THEN <<Trim(parts[2])>> ELSE NullParameter]

\* commandMap is a plain object literal: a property read that finds no own
\* property falls through to Object.prototype, whose members (toString,
\* valueOf, hasOwnProperty, ...) are functions that return normally
ProtoNames == {<<"toString">>}
Handlers == {"returns", "throws"}
Lookup(map, commandName) ==
    IF commandName \in DOMAIN map THEN map[commandName]
    ELSE IF commandName \in ProtoNames THEN "inherited"
    ELSE "undefined"

\* CommandDispatcher.executeCommand on a string: what it returns, which
\* function it invoked, and whether an exception left it
ExecuteCommandUncaught(map, commandInput) ==
    LET p == ParseCommandInput(commandInput)
        h == Lookup(map, p.commandName)
    IN [input |-> commandInput, commandName |-> p.commandName, parameter |-> p.parameter,
        ret |-> h \in {"returns", "inherited"}, invoked |-> h, raised |-> h = "throws"]
ExecuteCommandInput(map, commandInput) ==
    LET p == ParseCommandInput(commandInput)
        h == Lookup(map, p.commandName)
    IN [input |-> commandInput, commandName |-> p.commandName, parameter |-> p.parameter,
        ret |-> h \in {"returns", "inherited"}, invoked |-> h, raised |-> FALSE]

\* CommandDispatcher.registerCommand
RegNames == {<<"x">>, <<"toString">>}
RegisterCommand(commandName, handler) ==
    /\ commandMap' = [n \in DOMAIN commandMap \cup {commandName} |->
                         IF n = commandName THEN handler ELSE commandMap[n]]
    /\ UNCHANGED <<dcall, nonDispVars>>

CallExecuteCommand(commandInput) ==
    /\ dcall' = ExecuteCommandInput(commandMap, commandInput)
    /\ UNCHANGED <<commandMap, nonDispVars>>

\* the constructor: initializeCommands registers the built-in commands
InitDisp ==
    /\ commandMap = [n \in {<<"day_sky">>} |-> "returns"]
    /\ dcall = [input |-> <<>>, commandName |-> <<>>, parameter |-> NullParameter,
                ret |-> FALSE, invoked |-> "init", raised |-> FALSE]

NextDisp ==
    \/ \E n \in RegNames, h \in Handlers : RegisterCommand(n, h)
    \/ \E ci \in CommandInputs : CallExecuteCommand(ci)

\* ===================================================================== queue
DispatchEv(command, by) == [ev |-> "dispatch", id |-> command.id, by |-> by]
NotifyEv(i, by) == [ev |-> "notify", id |-> i, by |-> by]

\* Array.prototype.shift: removes and returns the first element
ShiftLast(q) == [item |-> q[Len(q)], rest |-> SubSeq(q, 1, Len(q) - 1)]
Shift(q) == [item |-> Head(q), rest |-> Tail(q)]

\* CommandQueue._notifyQueueEmpty: every listener is called in registration
\* order; a listener that throws is caught inside the forEach body.
NotifyQueueEmptyUncaught(lg, cbs, by) ==
    LET throwing == {i \in 1..Len(cbs) : cbs[i] = "throws"}
        last == IF throwing = {} THEN Len(cbs)
                ELSE CHOOSE i \in throwing : \A j \in throwing : i <= j
    IN lg \o [i \in 1..last |-> NotifyEv(i, by)]
NotifyQueueEmpty(lg, cbs, by) == lg \o [i \in 1..Len(cbs) |-> NotifyEv(i, by)]

\* the timer of _delay: the delay awaited and the time waited so far
NoTimer == [delay |-> 0, waited |-> 0]

\* the test before the await in the loop of executeAll
AwaitsDelayAlways(command, rest) == command.delay > 0
AwaitsDelay(command, rest) == Len(rest) > 0 /\ command.delay > 0

\* does the dispatch of a command raise into the queue: executeCommand returns
\* false for an unknown name and catches what a handler throws
DispatchRaisesOnFailure(command) == ~ExecuteCommand(command.kind)
DispatchRaises(command) == FALSE

\* the while loop of executeAll, from its test to the next suspension (the
\* await of _delay) or to its exit
RECURSIVE DrainLoop(_, _)
DrainLoop(q, lg) ==
    IF Len(q) = 0
    THEN [queue |-> q, log |-> lg, pc |-> "exit", timer |-> NoTimer]
    ELSE LET s == Shift(q)
             lg2 == Append(lg, DispatchEv(s.item, "all"))
         IN IF DispatchRaises(s.item)
            THEN [queue |-> s.rest, log |-> lg2, pc |-> "caught", timer |-> NoTimer]
            ELSE IF AwaitsDelay(s.item, s.rest)
            THEN [queue |-> s.rest, log |-> lg2, pc |-> "delay",
                  timer |-> [delay |-> s.item.delay, waited |-> 0]]
            ELSE DrainLoop(s.rest, lg2)

\* what follows the loop of executeAll: notify, reset the flag, return true
DrainSegmentSnapshotOnly(q, lg) ==
    LET d == DrainLoop(q, lg)
    IN IF drainPc = "delay" /\ q # <<>> /\ Head(q).id \notin {run.snapshot[i] : i \in 1..Len(run.snapshot)}
       THEN [queue |-> q, log |-> NotifyQueueEmpty(lg, callbacks, "all"),
             pc |-> "idle", executing |-> FALSE, timer |-> NoTimer, ret |-> "true"]
       ELSE IF d.pc = "delay"
       THEN [queue |-> d.queue, log |-> d.log, pc |-> "delay", executing |-> TRUE,
             timer |-> d.timer, ret |-> "pending"]
       ELSE [queue |-> d.queue, log |-> NotifyQueueEmpty(d.log, callbacks, "all"),
             pc |-> "idle", executing |-> FALSE, timer |-> NoTimer, ret |-> "true"]
DrainSegment(q, lg) ==
    LET d == DrainLoop(q, lg)
    IN IF d.pc = "delay"
       THEN [queue |-> d.queue, log |-> d.log, pc |-> "delay", executing |-> TRUE,
             timer |-> d.timer, ret |-> "pending"]
       ELSE IF d.pc = "caught"
       THEN [queue |-> d.queue, log |-> d.log, pc |-> "idle", executing |-> FALSE,
             timer |-> NoTimer, ret |-> "false"]
       ELSE [queue |-> d.queue, log |-> NotifyQueueEmpty(d.log, callbacks, "all"),
             pc |-> "idle", executing |-> FALSE, timer |-> NoTimer, ret |-> "true"]

AddCommand(kind, delay) ==
    /\ nextCmd <= MaxCmds
    /\ queue' = Append(queue, [id |-> nextCmd, kind |-> kind,
                               delay |-> IF delay # Null THEN delay ELSE DefaultDelay])
    /\ nextCmd' = nextCmd + 1
    /\ lastOp' = [op |-> "addCommand", arg |-> kind, ret |-> "this"]
    /\ UNCHANGED <<isExecuting, callbacks, drainPc, delayTimer, qlog, run, nonQueueVars>>

ClearQueueAlways == <<>>
ClearQueueResult == IF ~isExecuting THEN <<>> ELSE queue

ClearQueue ==
    /\ queue' = ClearQueueResult
    /\ lastOp' = [op |-> "clearQueue", arg |-> "none", ret |-> IF isExecuting THEN "rejected" ELSE "cleared"]
    /\ UNCHANGED <<isExecuting, callbacks, drainPc, delayTimer, nextCmd, qlog, run, nonQueueVars>>

OnQueueEmpty(kind) ==
    /\ Len(callbacks) < MaxListeners
    /\ callbacks' = Append(callbacks, kind)
    /\ lastOp' = [op |-> "onQueueEmpty", arg |-> kind, ret |-> "none"]
    /\ UNCHANGED <<queue, isExecuting, drainPc, delayTimer, nextCmd, qlog, run, nonQueueVars>>

\* the test after the dispatch in executeNext: was this the last command
NextNotifiesAlways(rest) == TRUE
NextNotifies(rest) == Len(rest) = 0

ExecuteNext ==
    \/ /\ Len(queue) = 0
       /\ lastOp' = [op |-> "executeNext", arg |-> "none", ret |-> "false"]
       /\ run' = IF run.state = "running" THEN [run EXCEPT !.nextDuring = TRUE] ELSE run
       /\ UNCHANGED <<queue, isExecuting, callbacks, drainPc, delayTimer, nextCmd, qlog, nonQueueVars>>
    \/ /\ Len(queue) > 0
       /\ LET s == Shift(queue)
              lg2 == Append(qlog, DispatchEv(s.item, "next"))
          IN /\ queue' = s.rest
             /\ qlog' = IF NextNotifies(s.rest) THEN NotifyQueueEmpty(lg2, callbacks, "next") ELSE lg2
             /\ lastOp' = [op |-> "executeNext", arg |-> "none",
                           ret |-> IF ExecuteCommand(s.item.kind) THEN "true" ELSE "false"]
       /\ run' = IF run.state = "running" THEN [run EXCEPT !.nextDuring = TRUE] ELSE run
       /\ UNCHANGED <<isExecuting, callbacks, drainPc, delayTimer, nextCmd, nonQueueVars>>

\* how many of the commands a segment of the drain took from the queue were
\* dispatched with the result false (history)
FailedIn(before, after) ==
    Cardinality({i \in 1..(Len(before) - Len(after)) : ~ExecuteCommand(before[i].kind)})

\* the re-entrancy guard of executeAll
DrainAdmitsAlways == TRUE
DrainAdmits == ~isExecuting

ExecuteAll ==
    \/ /\ ~DrainAdmits
       /\ lastOp' = [op |-> "executeAll", arg |-> "none", ret |-> "false"]
       /\ UNCHANGED <<queueVars, nonQueueVars>>
    \/ /\ DrainAdmits
       /\ Len(queue) = 0
       /\ lastOp' = [op |-> "executeAll", arg |-> "none", ret |-> "false"]
       /\ UNCHANGED <<queueVars, nonQueueVars>>
    \/ /\ DrainAdmits
       /\ Len(queue) > 0
       /\ LET d == DrainSegment(queue, qlog)
          IN /\ queue' = d.queue
             /\ qlog' = d.log
             /\ drainPc' = d.pc
             /\ delayTimer' = d.timer
             /\ isExecuting' = d.executing
             /\ run' = [state |-> IF d.pc = "idle" THEN "done" ELSE "running",
                        snapshot |-> [i \in 1..Len(queue) |-> queue[i].id],
                        startLen |-> Len(qlog), endLen |-> Len(d.log),
                        listeners |-> Len(callbacks), nextDuring |-> FALSE,
                        failed |-> FailedIn(queue, d.queue)]
             /\ lastOp' = [op |-> "executeAll", arg |-> "none", ret |-> d.ret]
       /\ UNCHANGED <<callbacks, nextCmd, nonQueueVars>>

\* time passes while executeAll is suspended in the await of _delay
DelayTick ==
    /\ drainPc = "delay"
    /\ delayTimer.waited < delayTimer.delay
    /\ delayTimer' = [delayTimer EXCEPT !.waited = @ + DelayStepMs]
    /\ UNCHANGED <<queue, isExecuting, callbacks, drainPc, nextCmd, qlog, run, lastOp, nonQueueVars>>

\* the timer of _delay fires and the loop of executeAll goes on
DrainResume ==
    /\ drainPc = "delay"
    /\ delayTimer.waited >= delayTimer.delay
    /\ LET d == DrainSegment(queue, qlog)
       IN /\ queue' = d.queue
          /\ qlog' = d.log
          /\ drainPc' = d.pc
          /\ delayTimer' = d.timer
          /\ isExecuting' = d.executing
          /\ run' = [run EXCEPT !.state = IF d.pc = "idle" THEN "done" ELSE "running",
                                !.endLen = Len(d.log),
                                !.listeners = Len(callbacks),
                                !.failed = @ + FailedIn(queue, d.queue)]
          /\ lastOp' = [op |-> "drainResume", arg |-> "none", ret |-> d.ret]
    /\ UNCHANGED <<callbacks, nextCmd, nonQueueVars>>

\* ============================================================= CodeEvaluator
\* A snippet is the code text, described by what running it does: whether the
\* text compiles, which free names it refers to, whether its body throws, and
\* the value it returns.
Obj3D(geom, color, y) == [kind |-> "Object3D", geom |-> geom, color |-> color, y |-> y]
NonObj(kind) == [kind |-> kind, geom |-> <<0, 0, 0>>, color |-> 0, y |-> 0]
SnippetMesh == Obj3D(<<2, 10, 2>>, 255, 5)
BrokenMesh == Obj3D(<<0, 0, 0>>, 0, 0)      \* new THREE.Mesh(null): measuring it throws
Values == {SnippetMesh, BrokenMesh, NonObj("undefined"), NonObj("number"), NonObj("object")}
Snippets == [compiles : BOOLEAN, throws : BOOLEAN, uses : {{}, {"THREE"}, {"ctx"}}, value : Values]
Contexts == {{}, {"ctx"}}

\* the three places of createMeshFromSnippet that build the default mesh
FallbackInner == Obj3D(<<3, 30, 3>>, FallbackColor, 15)
FallbackInvalid == Obj3D(<<3, 30, 3>>, FallbackColor, 15)
FallbackOuter == Obj3D(<<3, 30, 3>>, FallbackColor, 15)

\* running the compiled body: a free name that is neither a parameter of the
\* generated function nor the global THREE is a ReferenceError
BodyThrows(snippet, params) == snippet.throws \/ ~(snippet.uses \subseteq (params \cup {"THREE"}))

\* CodeEvaluator.createMeshFromSnippet: every path ends in a return
Returned(v) == [status |-> "returned", value |-> v]
Raised(msg) == [status |-> "raised", value |-> NonObj(msg)]

\* the check of the result after the generated function has returned
CheckResultStrict(result) ==
    IF result.kind = "Object3D" THEN Returned(result) ELSE Raised("TypeError")
CheckResult(result) ==
    IF result.kind = "Object3D" THEN Returned(result) ELSE Returned(FallbackInvalid)

CreateMeshFromSnippet(snippet, context) ==
    IF ~snippet.compiles
    THEN Returned(FallbackOuter)
    ELSE CheckResult(IF BodyThrows(snippet, context) THEN FallbackInner ELSE snippet.value)

\* CodeEvaluator.evaluateSnippet: the outer catch throws a new Error
EvaluateSnippetSwallow(snippet, context) ==
    IF ~snippet.compiles \/ BodyThrows(snippet, context \cup {"THREE"})
    THEN Returned(NonObj("undefined"))
    ELSE Returned(snippet.value)
EvaluateSnippet(snippet, context) ==
    IF ~snippet.compiles \/ BodyThrows(snippet, context \cup {"THREE"})
    THEN Raised("Error: Code evaluation failed")
    ELSE Returned(snippet.value)

CallCreateMesh ==
    /\ Len(evalOut) < 2
    /\ LET r == CreateMeshFromSnippet(evalIn.snippet, evalIn.context)
       IN /\ evalOut' = Append(evalOut, [fn |-> "createMeshFromSnippet", status |-> r.status,
                                         value |-> r.value])
          /\ lastOp' = [op |-> "createMeshFromSnippet", arg |-> "none", ret |-> r.status]
    /\ UNCHANGED <<nonEvalVars, evalIn>>

CallEvaluate ==
    /\ Len(evalOut) < 2
    /\ LET r == EvaluateSnippet(evalIn.snippet, evalIn.context)
       IN /\ evalOut' = Append(evalOut, [fn |-> "evaluateSnippet", status |-> r.status,
                                         value |-> r.value])
          /\ lastOp' = [op |-> "evaluateSnippet", arg |-> "none", ret |-> r.status]
    /\ UNCHANGED <<nonEvalVars, evalIn>>

\* no CodeEvaluator call has been made
InitEval ==
    /\ evalIn = [snippet |-> [compiles |-> TRUE, throws |-> FALSE, uses |-> {},
                              value |-> SnippetMesh],
                 context |-> {}]
    /\ evalOut = <<>>

\* a caller holds any snippet and any context
InitEvalInputs ==
    /\ evalIn \in [snippet : Snippets, context : Contexts]
    /\ evalOut = <<>>

NextEval ==
    \/ CallCreateMesh
    \/ CallEvaluate

\* ======================================================== EnvironmentManager
\* Entities are records; obj is the identity of the THREE.Group of the entity
\* (the object handed to scene.add / scene.remove).
Objs(s) == {s[i].obj : i \in 1..Len(s)}

\* addTree applied n times, on explicit state (used by addTree and spawnTreeType)
RECURSIVE AddTrees(_, _)
AddTrees(st, poss) ==
    IF Len(poss) = 0
    THEN st
    ELSE LET tree == [id |-> <<"tree", st.counter>>, obj |-> st.nextObj, pos |-> Head(poss)]
         IN AddTrees([trees |-> Append(st.trees, tree),
                      scene |-> st.scene \cup {tree.obj},
                      counter |-> st.counter + 1,
                      nextObj |-> st.nextObj + 1,
                      created |-> st.created \cup {tree}], Tail(poss))

TreeState == [trees |-> trees, scene |-> scene, counter |-> idCounter["tree"],
              nextObj |-> nextObj, created |-> allTrees]

SetTreeState(st) ==
    /\ trees' = st.trees
    /\ scene' = st.scene
    /\ idCounter' = [idCounter EXCEPT !["tree"] = st.counter]
    /\ nextObj' = st.nextObj
    /\ allTrees' = st.created

\* a position argument that is missing, and one that has no coordinates
Undefined == "undefined"
NoCoordinates == "{}"

\* addTree(position): reading position.y of a missing position raises a
\* TypeError after the id was taken; any object is used as it is
AddTree(pos) ==
    IF pos = Undefined
    THEN /\ idCounter["tree"] < MaxObjs
         /\ idCounter' = [idCounter EXCEPT !["tree"] = @ + 1]
         /\ UNCHANGED <<trees, scene, nextObj, allTrees, buildings, others, fades,
                        nextFade, nonEnvVars>>
    ELSE /\ nextObj <= MaxObjs
         /\ SetTreeState(AddTrees(TreeState, <<pos>>))
         /\ UNCHANGED <<buildings, others, fades, nextFade, nonEnvVars>>

\* removeTree(treeId): findIndex, scene.remove, splice
RemoveTree(treeId) ==
    /\ LET idx == {i \in 1..Len(trees) : trees[i].id = treeId}
       IN IF idx # {}
          THEN LET index == CHOOSE i \in idx : \A j \in idx : i <= j
               IN /\ scene' = scene \ {trees[index].obj}
                  /\ trees' = SubSeq(trees, 1, index - 1) \o SubSeq(trees, index + 1, Len(trees))
          ELSE /\ UNCHANGED <<scene, trees>>
    /\ UNCHANGED <<buildings, others, idCounter, nextObj, fades, nextFade, allTrees, nonEnvVars>>

\* clearTrees on explicit state
ClearedTreesDetachOnly(st) == [st EXCEPT !.scene = st.scene \ Objs(st.trees)]
ClearedTrees(st) == [st EXCEPT !.scene = st.scene \ Objs(st.trees), !.trees = <<>>]

ClearTrees ==
    /\ SetTreeState(ClearedTrees(TreeState))
    /\ UNCHANGED <<buildings, others, fades, nextFade, nonEnvVars>>

\* spawnTreeType(treeType, count): clearTrees, then count addTree calls at
\* random positions (the type only selects colour and scale)
SpawnTreeType(treeType, poss) ==
    /\ nextObj + Len(poss) <= MaxObjs + 1
    /\ SetTreeState(AddTrees(ClearedTrees(TreeState), poss))
    /\ UNCHANGED <<buildings, others, fades, nextFade, nonEnvVars>>

\* the body of the for loop of transformTreesToSkyscrapers for one position.
\* Measuring a mesh without geometry throws inside the try, after the id was
\* taken; the catch then calls createFallbackSkyscraper, which takes the next id.
SkyscraperAt(pos, snippet, counter, obj) ==
    LET made == CreateMeshFromSnippet(snippet, {})
        mesh == made.value
        Fallback(n) == [id |-> <<"skyscraper", n>>, obj |-> obj, pos |-> pos,
                        type |-> "fantasy_skyscraper", mesh |-> "fallbackTower"]
    IN IF made.status = "raised"
       THEN [b |-> Fallback(counter), counter |-> counter + 1]
       ELSE IF mesh = BrokenMesh
       THEN [b |-> Fallback(counter + 1), counter |-> counter + 2]
       ELSE [b |-> [id |-> <<"skyscraper", counter>>, obj |-> obj, pos |-> pos,
                    type |-> "fantasy_skyscraper",
                    mesh |-> IF mesh = FallbackInner THEN "fallbackBox" ELSE "snippetMesh"],
             counter |-> counter + 1]

\* createStylizedBuilding
StylizedAt(pos, newType, counter, obj) ==
    [b |-> [id |-> <<"building", counter>>, obj |-> obj, pos |-> pos,
            type |-> newType, mesh |-> "stylized"],
     counter |-> counter + 1]

\* the positions of the tracked trees (treePositions)
TreePositionsButFirst(ts) == [i \in 1..(Len(ts) - 1) |-> ts[i + 1].pos]
TreePositions(ts) == [i \in 1..Len(ts) |-> ts[i].pos]

\* one pass of the for loop over treePositions; how tells which transform runs
BuildOne(pos, how, counter, obj) ==
    IF how.op = "skyscrapers"
    THEN SkyscraperAt(pos, Head(how.arg), counter, obj)
    ELSE StylizedAt(pos, how.arg, counter, obj)

\* what the following passes of the loop see: the snippet's later evaluations
NextPass(how) == IF how.op = "skyscrapers" THEN [how EXCEPT !.arg = Tail(@)] ELSE how

\* the for loop over treePositions
RECURSIVE BuildAllUntilFailure(_, _, _, _)
BuildAllUntilFailure(poss, how, counter, obj) ==
    IF Len(poss) = 0
    THEN [built |-> <<>>, counter |-> counter, nextObj |-> obj]
    ELSE LET one == BuildOne(Head(poss), how, counter, obj)
             rest == BuildAllUntilFailure(Tail(poss), NextPass(how), one.counter, obj + 1)
         IN IF one.b.mesh = "fallbackTower"
            THEN [built |-> <<one.b>>, counter |-> one.counter, nextObj |-> obj + 1]
            ELSE [built |-> <<one.b>> \o rest.built, counter |-> rest.counter,
                  nextObj |-> rest.nextObj]
RECURSIVE BuildAll(_, _, _, _)
BuildAll(poss, how, counter, obj) ==
    IF Len(poss) = 0
    THEN [built |-> <<>>, counter |-> counter, nextObj |-> obj]
    ELSE LET one == BuildOne(Head(poss), how, counter, obj)
             rest == BuildAll(Tail(poss), NextPass(how), one.counter, obj + 1)
         IN [built |-> <<one.b>> \o rest.built, counter |-> rest.counter, nextObj |-> rest.nextObj]

\* fadeOutAndRemoveTrees(trees): the closure and its first, synchronous tick
NewFade(ts) == [fid |-> nextFade, trees |-> ts, elapsed |-> 0, shown |-> 0]

TransformWith(how) ==
    IF Len(trees) = 0
    THEN UNCHANGED <<envVars, nonEnvVars>>
    ELSE /\ nextObj + Len(trees) <= MaxObjs + 1
         /\ nextFade <= MaxFades
         /\ LET r == BuildAll(TreePositions(trees), how, idCounter["building"], nextObj)
            IN /\ buildings' = buildings \o r.built
               /\ scene' = scene \cup Objs(r.built)
               /\ idCounter' = [idCounter EXCEPT !["building"] = r.counter]
               /\ nextObj' = r.nextObj
         /\ fades' = fades \cup {NewFade(trees)}
         /\ nextFade' = nextFade + 1
         /\ UNCHANGED <<trees, others, allTrees, nonEnvVars>>

\* the snippet is evaluated once for every tree, and a snippet that reads
\* Math.random or global state need not behave alike twice: evals[i] is its
\* behaviour at the i-th evaluation; Each(snippet) behaves alike every time
Each(snippet) == [i \in 1..Len(trees) |-> snippet]

TransformTreesToSkyscrapers(evals) ==
    /\ Len(evals) = Len(trees)
    /\ TransformWith([op |-> "skyscrapers", arg |-> evals])

TransformTreesToBuildings(newType) ==
    TransformWith([op |-> "buildings", arg |-> newType])

\* wall-clock time passes: Date.now() - startTime grows for every closure
AdvanceTime ==
    /\ \E f \in fades : f.elapsed < FadeDuration
    /\ fades' = {[f EXCEPT !.elapsed = IF f.elapsed + FrameMs >= FadeDuration
                                       THEN FadeDuration ELSE f.elapsed + FrameMs] : f \in fades}
    /\ UNCHANGED <<trees, buildings, others, scene, idCounter, nextObj, nextFade, allTrees, nonEnvVars>>

\* what the last tick of a fade-out leaves in the trees collection
TreesAfterFadeKeep(f) == trees
TreesAfterFade(f) == <<>>

\* an animation frame runs the animate closure of fade-out f
FadeTick(f) ==
    /\ f \in fades
    /\ IF f.elapsed < FadeDuration
       THEN /\ fades' = (fades \ {f}) \cup {[f EXCEPT !.shown = f.elapsed]}
            /\ UNCHANGED <<trees, scene>>
       ELSE /\ scene' = scene \ Objs(f.trees)
            /\ trees' = TreesAfterFade(f)
            /\ fades' = fades \ {f}
    /\ UNCHANGED <<buildings, others, idCounter, nextObj, nextFade, allTrees, nonEnvVars>>

\* addRock / addPlatform / addFloatingIsland / addCloud
AddOther(kind) ==
    /\ nextObj <= MaxObjs
    /\ idCounter["rock"] + idCounter["platform"] + idCounter["island"] + idCounter["cloud"] < MaxOthers
    /\ others' = [others EXCEPT ![kind] =
                      Append(@, [id |-> <<kind, idCounter[kind]>>, obj |-> nextObj])]
    /\ scene' = scene \cup {nextObj}
    /\ idCounter' = [idCounter EXCEPT ![kind] = @ + 1]
    /\ nextObj' = nextObj + 1
    /\ UNCHANGED <<trees, buildings, fades, nextFade, allTrees, nonEnvVars>>

\* removeRock / removePlatform / removeFloatingIsland / removeCloud
RemoveOther(kind, n) ==
    /\ LET idx == {i \in 1..Len(others[kind]) : others[kind][i].id = <<kind, n>>}
       IN IF idx # {}
          THEN LET index == CHOOSE i \in idx : \A j \in idx : i <= j
                   c == others[kind]
               IN /\ scene' = scene \ {c[index].obj}
                  /\ others' = [others EXCEPT ![kind] =
                                    SubSeq(c, 1, index - 1) \o SubSeq(c, index + 1, Len(c))]
          ELSE /\ UNCHANGED <<scene, others>>
    /\ UNCHANGED <<trees, buildings, idCounter, nextObj, fades, nextFade, allTrees, nonEnvVars>>

\* addBuilding / addPlaceholderBuilding / createBuildingBillboard: the id is
\* "building_" and the shared building counter
BuildingAt(pos, buildingType, counter, obj) ==
    [id |-> <<"building", counter>>, obj |-> obj, pos |-> pos,
     type |-> buildingType, mesh |-> "placeholder"]

AddBuilding(pos) ==
    /\ nextObj <= MaxObjs
    /\ buildings' = Append(buildings, BuildingAt(pos, "model", idCounter["building"], nextObj))
    /\ scene' = scene \cup {nextObj}
    /\ idCounter' = [idCounter EXCEPT !["building"] = @ + 1]
    /\ nextObj' = nextObj + 1
    /\ UNCHANGED <<trees, others, fades, nextFade, allTrees, nonEnvVars>>

\* removeBuilding(buildingId): findIndex, scene.remove, splice
RemoveBuilding(buildingId) ==
    /\ LET idx == {i \in 1..Len(buildings) : buildings[i].id = buildingId}
       IN IF idx # {}
          THEN LET index == CHOOSE i \in idx : \A j \in idx : i <= j
               IN /\ scene' = scene \ {buildings[index].obj}
                  /\ buildings' = SubSeq(buildings, 1, index - 1)
                                     \o SubSeq(buildings, index + 1, Len(buildings))
          ELSE /\ UNCHANGED <<scene, buildings>>
    /\ UNCHANGED <<trees, others, idCounter, nextObj, fades, nextFade, allTrees, nonEnvVars>>

ClearBuildings ==
    /\ scene' = scene \ Objs(buildings)
    /\ buildings' = <<>>
    /\ UNCHANGED <<trees, others, idCounter, nextObj, fades, nextFade, allTrees, nonEnvVars>>

\* spawnBuildingType(buildingType): clearBuildings, then one placeholder
\* building at a random position
SpawnBuildingTypeNoClear(buildingType, pos) ==
    /\ nextObj <= MaxObjs
    /\ buildings' = Append(buildings, BuildingAt(pos, buildingType, idCounter["building"], nextObj))
    /\ scene' = scene \cup {nextObj}
    /\ idCounter' = [idCounter EXCEPT !["building"] = @ + 1]
    /\ nextObj' = nextObj + 1
    /\ UNCHANGED <<trees, others, fades, nextFade, allTrees, nonEnvVars>>
SpawnBuildingType(buildingType, pos) ==
    /\ nextObj <= MaxObjs
    /\ buildings' = <<BuildingAt(pos, buildingType, idCounter["building"], nextObj)>>
    /\ scene' = (scene \ Objs(buildings)) \cup {nextObj}
    /\ idCounter' = [idCounter EXCEPT !["building"] = @ + 1]
    /\ nextObj' = nextObj + 1
    /\ UNCHANGED <<trees, others, fades, nextFade, allTrees, nonEnvVars>>

\* clearAll empties the six collections; the id counters keep their values
CountersAfterClearAllReset == [k \in DOMAIN idCounter |-> 0]
CountersAfterClearAll == idCounter

ClearAllKeepsBuildings ==
    /\ scene' = scene \ (Objs(trees) \cup UNION {Objs(others[k]) : k \in OtherKinds})
    /\ trees' = <<>>
    /\ others' = [k \in OtherKinds |-> <<>>]
    /\ idCounter' = CountersAfterClearAll
    /\ UNCHANGED <<buildings, nextObj, fades, nextFade, allTrees, nonEnvVars>>
ClearAll ==
    /\ scene' = scene \ (Objs(trees) \cup Objs(buildings)
                         \cup UNION {Objs(others[k]) : k \in OtherKinds})
    /\ trees' = <<>>
    /\ buildings' = <<>>
    /\ others' = [k \in OtherKinds |-> <<>>]
    /\ idCounter' = CountersAfterClearAll
    /\ UNCHANGED <<nextObj, fades, nextFade, allTrees, nonEnvVars>>

InitEnv ==
    /\ trees = <<>>
    /\ buildings = <<>>
    /\ others = [k \in OtherKinds |-> <<>>]
    /\ scene = {}
    /\ idCounter = [k \in OtherKinds \cup {"tree", "building"} |-> 0]
    /\ nextObj = 1
    /\ fades = {}
    /\ nextFade = 1
    /\ allTrees = {}

\* the snippets and building types the transform operations are tried with
EnvSnippets ==
    {[compiles |-> TRUE, throws |-> FALSE, uses |-> {}, value |-> SnippetMesh],
     [compiles |-> TRUE, throws |-> FALSE, uses |-> {}, value |-> BrokenMesh],
     [compiles |-> TRUE, throws |-> FALSE, uses |-> {}, value |-> NonObj("undefined")],
     [compiles |-> TRUE, throws |-> TRUE, uses |-> {}, value |-> NonObj("undefined")]}
\* the behaviours of a snippet over n evaluations
Evaluations(n) == [1..n -> EnvSnippets]
TreeTypes == {"oak", "nonexistent-type"}
NewObjectTypes == {"fantasy_tower", "unknown"}
SpawnLists == UNION {[1..n -> Positions] : n \in 0..MaxSpawn}

NextEnv ==
    \/ \E pos \in Positions : AddTree(pos)
    \/ \E n \in 0..MaxObjs : RemoveTree(<<"tree", n>>)
    \/ ClearTrees
    \/ \E t \in TreeTypes, poss \in SpawnLists : SpawnTreeType(t, poss)
    \/ \E evals \in Evaluations(Len(trees)) : TransformTreesToSkyscrapers(evals)
    \/ \E t \in NewObjectTypes : TransformTreesToBuildings(t)
    \/ AdvanceTime
    \/ \E f \in fades : FadeTick(f)
    \/ ClearAll

\* the operations on trees and buildings together with those on the four
\* other collections
NextEnvKinds ==
    \/ NextEnv
    \/ \E k \in OtherKinds : AddOther(k)
    \/ \E k \in OtherKinds, n \in 0..MaxOthers : RemoveOther(k, n)

\* every operation that hands out an id or removes an entity, at one position,
\* before the animation frames of a started fade-out run (they hand out no
\* id), and with the snippets that take one id (throws) and two ids (a mesh that
\* cannot be measured) per tree
\* the add and remove operations, with position arguments of every shape
PositionArgs == Positions \cup {Undefined, NoCoordinates}
NextEnvAdd ==
    \/ \E pos \in PositionArgs : AddTree(pos)
    \/ \E tid \in {t.id : t \in Range(trees)} \cup {<<"tree", MaxObjs>>} : RemoveTree(tid)
    \/ ClearTrees
    \/ \E k \in OtherKinds : AddOther(k)

BuildingTypes == {"castle", "unknown-type"}
IdSnippets == {sn \in EnvSnippets : sn.throws \/ sn.value = BrokenMesh}
NextEnvIds ==
    \/ AddTree("p1")
    \/ \E tid \in {t.id : t \in Range(trees)} \cup {<<"tree", MaxObjs>>} : RemoveTree(tid)
    \/ ClearTrees
    \/ \E n \in 0..MaxSpawn : SpawnTreeType("oak", [i \in 1..n |-> "p1"])
    \/ \E sn \in IdSnippets : TransformTreesToSkyscrapers(Each(sn))
    \/ TransformTreesToBuildings("fantasy_tower")
    \/ \E k \in OtherKinds : AddOther(k)
    \/ \E k \in OtherKinds, n \in 0..MaxOthers : RemoveOther(k, n)
    \/ AddBuilding("p1")
    \/ \E bid \in {x.id : x \in Range(buildings)} \cup {<<"building", MaxObjs>>} : RemoveBuilding(bid)
    \/ ClearBuildings
    \/ \E bt \in BuildingTypes : SpawnBuildingType(bt, "p1")
    \/ ClearAll

\* ============================== NaturalLanguageRouter / NaturalLanguageProcessor
Reqs == 1..MaxReqs

\* the user text: whether it is a non-blank string, and which of the three
\* keyword classes of isSkyscraperRequest it mentions
Terms == {"skyscraper", "tree", "verb"}
Inputs == {[valid |-> FALSE, terms |-> {}],
           [valid |-> TRUE, terms |-> {}],
           [valid |-> TRUE, terms |-> Terms]}

\* NaturalLanguageRouter.isSkyscraperRequest / determineRequestType
IsSkyscraperRequest(terms) == "skyscraper" \in terms /\ "tree" \in terms /\ "verb" \in terms
DetermineRequestType(input) ==
    IF IsSkyscraperRequest(input.terms) THEN "code_generator" ELSE "simple_parameter"

\* ------------------------------------------------- the text of a user request
\* A user text is a sequence of words separated by white space.
Vocabulary == {"Skyscrapers", "skyscraper", "TREES", "tree", "street",
               "Turn", "return", "change", "sunny"}
RECURSIVE TextsOfLen(_)
TextsOfLen(n) ==
    IF n = 0 THEN {<<>>}
    ELSE {Append(txt, w) : txt \in TextsOfLen(n - 1), w \in Vocabulary}
Texts == UNION {TextsOfLen(n) : n \in 0..MaxWords}

\* String.prototype.toLowerCase, word by word
LowerWord(w) ==
    CASE w = "Skyscrapers" -> "skyscrapers"
      [] w = "TREES" -> "trees"
      [] w = "Turn" -> "turn"
      [] OTHER -> w
ToLowerCase(txt) == [i \in 1..Len(txt) |-> LowerWord(txt[i])]

\* the keywords of isSkyscraperRequest that occur as a substring of a word;
\* the comparison is case sensitive
Keywords == {"skyscraper", "skyscrapers", "tree", "trees",
             "replace", "transform", "change", "turn"}
SubstringsOf(w) ==
    CASE w = "skyscrapers" -> {"skyscraper", "skyscrapers"}
      [] w = "skyscraper" -> {"skyscraper"}
      [] w = "trees" -> {"tree", "trees"}
      [] w = "tree" -> {"tree"}
      [] w = "street" -> {"tree"}
      [] w = "turn" -> {"turn"}
      [] w = "return" -> {"turn"}
      [] w = "change" -> {"change"}
      [] OTHER -> {}

\* String.prototype.includes
Includes(txt, keyword) == \E i \in 1..Len(txt) : keyword \in SubstringsOf(txt[i])

\* the three disjunctions of isSkyscraperRequest, as the classes found
TermsOf(lowerInput) ==
    {c \in Terms :
        \/ c = "skyscraper" /\ (Includes(lowerInput, "skyscraper") \/ Includes(lowerInput, "skyscrapers"))
        \/ c = "tree" /\ (Includes(lowerInput, "tree") \/ Includes(lowerInput, "trees"))
        \/ c = "verb" /\ (\/ Includes(lowerInput, "replace") \/ Includes(lowerInput, "transform")
                          \/ Includes(lowerInput, "change") \/ Includes(lowerInput, "turn"))}

\* NaturalLanguageRouter.determineRequestType on a text
RequestTypeAny(userInput) ==
    IF TermsOf(ToLowerCase(userInput)) # {} THEN "code_generator" ELSE "simple_parameter"
RequestTypeOf(userInput) ==
    DetermineRequestType([valid |-> TRUE, terms |-> TermsOf(ToLowerCase(userInput))])

\* the content string of the chat completion: JSON with the listed fields, or
\* text that is not JSON
\* a parsed JSON object: a function from its field names to their values;
\* "" stands for a value JavaScript treats as false ("", null, 0)
NoFields == [f \in {} |-> ""]
Truthy(commands, field) == field \in DOMAIN commands /\ commands[field] # ""

Contents == {[json |-> TRUE, fields |-> [f \in {"sky_color"} |-> "#000000"]],
             [json |-> TRUE, fields |-> NoFields],
             [json |-> TRUE, fields |-> [f \in {"javascript_code_snippet"} |-> "given"]],
             [json |-> TRUE, fields |-> [f \in {"javascript_code_snippet"} |-> "other"]],
             [json |-> FALSE, fields |-> NoFields]}

\* ------------------------------------------------- the text of an LLM response
\* A response text is a sequence of tokens: the braces, a backslash, the
\* letter s, a JSON member ("sky_color":"#000000"), and other prose.
TextTokens == {"{", "}", "\\", "s", "member", "prose"}
RECURSIVE ResponsesOfLen(_)
ResponsesOfLen(n) ==
    IF n = 0 THEN {<<>>}
    ELSE {Append(str, t) : str \in ResponsesOfLen(n - 1), t \in TextTokens}
ResponseTexts == UNION {ResponsesOfLen(n) : n \in 0..MaxText}

NoMatch == [found |-> FALSE, span |-> <<>>]

\* JSON.parse on a text: an object with no member or with the one member
JsonParse(str) ==
    IF str = <<"{", "}">> THEN [ok |-> TRUE, fields |-> NoFields]
    ELSE IF str = <<"{", "member", "}">>
    THEN [ok |-> TRUE, fields |-> [f \in {"sky_color"} |-> "#000000"]]
    ELSE [ok |-> FALSE, fields |-> NoFields]

\* response.match(/\\{[\\s\\S]*\\}/): in the regular expression literal every
\* doubled backslash is a literal backslash, so the pattern is a backslash, an
\* opening brace, any number of the characters backslash, s and S, a
\* backslash and a closing brace; leftmost match, longest first
InClass(t) == t \in {"\\", "s"}
MatchesAt(str, i, j) ==
    /\ j >= i + 3
    /\ str[i] = "\\" /\ str[i + 1] = "{"
    /\ str[j - 1] = "\\" /\ str[j] = "}"
    /\ \A k \in (i + 2)..(j - 2) : InClass(str[k])
RegexMatch(str) ==
    LET starts == {i \in 1..Len(str) : \E j \in 1..Len(str) : MatchesAt(str, i, j)}
    IN IF starts = {} THEN NoMatch
       ELSE LET i == CHOOSE a \in starts : \A b \in starts : a <= b
                ends == {j \in 1..Len(str) : MatchesAt(str, i, j)}
                j == CHOOSE a \in ends : \A b \in ends : a >= b
            IN [found |-> TRUE, span |-> SubSeq(str, i, j)]

\* the part parseSimpleParameterResponse and parseCodeGeneratorResponse share:
\* the empty-response test, JSON.parse, and the recovery by pattern match
DecodeResponse(response) ==
    IF Len(response) = 0 THEN [ok |-> FALSE, fields |-> NoFields]
    ELSE IF JsonParse(response).ok THEN JsonParse(response)
    ELSE IF RegexMatch(response).found THEN JsonParse(RegexMatch(response).span)
    ELSE [ok |-> FALSE, fields |-> NoFields]

ContentOf(response) ==
    [json |-> DecodeResponse(response).ok, fields |-> DecodeResponse(response).fields]

\* parseSimpleParameterResponse / parseCodeGeneratorResponse
ParseResponseLenient(rtype, content) ==
    IF ~content.json
    THEN [ok |-> FALSE, error |-> "parse", data |-> NoFields]
    ELSE [ok |-> TRUE, error |-> "none", data |-> content.fields]
ParseResponse(rtype, content) ==
    IF ~content.json
    THEN [ok |-> FALSE, error |-> "parse", data |-> NoFields]
    ELSE IF rtype = "code_generator" /\ ~Truthy(content.fields, "javascript_code_snippet")
    THEN [ok |-> FALSE, error |-> "schema", data |-> NoFields]
    ELSE [ok |-> TRUE, error |-> "none", data |-> content.fields]

\* the manager operations of applyEnvironmentUpdates, in the order of the code
FieldOps == <<[field |-> "sky_color", call |-> "changeSkyColor"],
              [field |-> "ground_color", call |-> "changeGroundColor"],
              [field |-> "tree_type", call |-> "spawnTreeType"],
              [field |-> "building_type", call |-> "spawnBuildingType"],
              [field |-> "weather_effect", call |-> "startWeatherEffect"],
              [field |-> "ambient_light_color", call |-> "changeAmbientLightColor"],
              [field |-> "particle_effect", call |-> "startParticleEffect"],
              [field |-> "player_color", call |-> "changePlayerColor"],
              [field |-> "transform_trees_to_buildings", call |-> "transformTreesToBuildings"]>>

DefaultScene == <<[call |-> "changeSkyColor", arg |-> "#87CEEB", via |-> "executeCommand"],
                  [call |-> "changeGroundColor", arg |-> "#4CAF50", via |-> "executeCommand"],
                  [call |-> "spawnTreeType", arg |-> "oak,5", via |-> "manager"]>>

\* the argument list of the manager call made for a field
ArgOf(commands, field) ==
    IF field = "tree_type"
    THEN commands[field] \o "," \o
            (IF Truthy(commands, "tree_count") THEN commands["tree_count"] ELSE "5")
    ELSE commands[field]

\* changesApplied at the end of the nine tests
ChangesApplied(commands) == \E i \in 1..Len(FieldOps) : Truthy(commands, FieldOps[i].field)

ApplyEnvironmentUpdates(commands) ==
    LET present == SelectSeq(FieldOps, LAMBDA fo : Truthy(commands, fo.field))
    IN IF ChangesApplied(commands)
       THEN [i \in 1..Len(present) |->
                [call |-> present[i].call, arg |-> ArgOf(commands, present[i].field),
                 via |-> "manager"]]
       ELSE DefaultScene

\* applySkyscraperTransformation
ApplySkyscraperTransformation(data) ==
    <<[call |-> "transformTreesToSkyscrapers",
       arg |-> IF "javascript_code_snippet" \in DOMAIN data
               THEN data["javascript_code_snippet"] ELSE "undefined"]>>

\* what processInput does with the router response
ApplyResultSimple(rtype) == "applyEnvironmentUpdates"
ApplyResult(rtype) ==
    IF rtype = "simple_parameter" THEN "applyEnvironmentUpdates" ELSE "applySkyscraperTransformation"

NoReq == [pc |-> "new", rtype |-> "none", age |-> 0, rTimer |-> FALSE, sTimer |-> FALSE,
          timedOut |-> FALSE, cbAtTimeout |-> 0, cb |-> <<>>]

Outstanding(r) == req[r].pc \in {"fetch", "errbody", "body"}

\* the guards of processInput and of routeCommand
AdmitAlways(busy) == TRUE
ProcessorAdmits(busy) == ~busy
RouterAdmitsAlways(busy) == TRUE
RouterAdmits(busy) == ~busy

\* the credential check of routeCommand: this.apiKey, else loadApiKey()
KeyAvailableAlways == TRUE
KeyAvailable == apiKey \/ storedKey

\* NaturalLanguageProcessor.processInput up to its first suspension: the
\* validation, the busy guard, the safety timer, and routeCommand up to the
\* fetch of callOpenAI.  An error reported by routeCommand before its try
\* block throws out of the router's error callback into the catch and finally
\* of processInput.
ProcessInput(input) ==
    /\ nextReq <= MaxReqs
    /\ nextReq' = nextReq + 1
    /\ LET r == nextReq
           Ends(pc, cbs) == req' = [req EXCEPT ![r] = [NoReq EXCEPT !.pc = pc, !.cb = cbs]]
       IN IF ~input.valid
          THEN /\ Ends("rejected", <<"error:invalid", "complete">>)
               /\ UNCHANGED <<procBusy, routerBusy, apiKey>>
          ELSE IF ~ProcessorAdmits(procBusy)
          THEN /\ Ends("rejected", <<"error:busy", "complete">>)
               /\ UNCHANGED <<procBusy, routerBusy, apiKey>>
          ELSE IF ~KeyAvailable
          THEN /\ Ends("done", <<"start", "error:nokey", "complete">>)
               /\ procBusy' = FALSE
               /\ UNCHANGED <<routerBusy, apiKey>>
          ELSE IF ~RouterAdmits(routerBusy)
          THEN /\ Ends("done", <<"start", "error:busy", "complete">>)
               /\ procBusy' = FALSE
               /\ apiKey' = TRUE
               /\ UNCHANGED routerBusy
          ELSE /\ req' = [req EXCEPT ![r] = [NoReq EXCEPT !.pc = "fetch",
                                                          !.rtype = DetermineRequestType(input),
                                                          !.rTimer = TRUE, !.sTimer = TRUE,
                                                          !.cb = <<"start">>]]
               /\ procBusy' = TRUE
               /\ routerBusy' = TRUE
               /\ apiKey' = TRUE
    /\ lastOp' = [op |-> "processInput", arg |-> IF input.valid THEN "valid" ELSE "invalid",
                  ret |-> req'[nextReq].pc]
    /\ UNCHANGED <<storedKey, mgrCalls, nonNlpVars>>

\* NaturalLanguageRouter.updateConfig({apiKey})
UpdateConfig ==
    /\ ~apiKey \/ ~storedKey
    /\ apiKey' = TRUE
    /\ storedKey' = TRUE
    /\ lastOp' = [op |-> "updateConfig", arg |-> "none", ret |-> "none"]
    /\ UNCHANGED <<procBusy, routerBusy, req, nextReq, mgrCalls, nonNlpVars>>

\* the flags after the finally block of routeCommand and of processInput
RouterFinallyHeld == routerBusy
RouterFinally == FALSE
ProcessorFinallyHeld == procBusy
ProcessorFinally == FALSE

\* a failure inside the try of routeCommand: its catch reports the error (the
\* processor's callback throws), its finally releases the router; then the
\* catch and the finally of processInput run
Fail(r, msg) ==
    /\ req' = [req EXCEPT ![r].pc = "done", ![r].rTimer = FALSE, ![r].sTimer = FALSE,
                          ![r].cb = @ \o <<"error:" \o msg, "complete">>]
    /\ routerBusy' = RouterFinally
    /\ procBusy' = ProcessorFinally
    /\ lastOp' = [op |-> "requestFailed", arg |-> msg, ret |-> "none"]
    /\ UNCHANGED <<apiKey, storedKey, nextReq, mgrCalls, nonNlpVars>>

\* fetch resolves with a response: the router timer is cleared; what follows
\* is the await of response.json()
FetchResolves(r, ok) ==
    /\ req[r].pc = "fetch"
    /\ req' = [req EXCEPT ![r].pc = IF ok THEN "body" ELSE "errbody", ![r].rTimer = FALSE]
    /\ lastOp' = [op |-> "fetchResolves", arg |-> "none", ret |-> IF ok THEN "ok" ELSE "status"]
    /\ UNCHANGED <<procBusy, routerBusy, apiKey, storedKey, nextReq, mgrCalls, nonNlpVars>>

\* fetch rejects (network failure)
FetchRejects(r) ==
    /\ req[r].pc = "fetch"
    /\ Fail(r, "transport")

\* the 15 s timer of callOpenAI is armed and has run out
RouterTimerLate(r) == req[r].rTimer /\ req[r].age >= SafetyTimeoutMs
RouterTimerDue(r) == req[r].rTimer /\ req[r].age >= RouterTimeoutMs

\* the 15 s timer fires: controller.abort() rejects the fetch with AbortError
RouterTimeout(r) ==
    /\ req[r].pc = "fetch"
    /\ RouterTimerDue(r)
    /\ Fail(r, "timeout")

\* the body of a non-2xx response has been read (or could not be)
ErrorBodyRead(r) ==
    /\ req[r].pc = "errbody"
    /\ Fail(r, "status")

\* response.json() rejects, or the body has no choices[0].message.content
BodyRejects(r) ==
    /\ req[r].pc = "body"
    /\ Fail(r, "format")

\* response.json() resolves with a content string: parse it, leave
\* routeCommand, and run the rest of processInput
BodyArrives(r, content, mgrOk) ==
    /\ req[r].pc = "body"
    /\ LET parsed == ParseResponse(req[r].rtype, content)
       IN IF ~parsed.ok
          THEN Fail(r, parsed.error)
          ELSE /\ routerBusy' = RouterFinally
               /\ procBusy' = ProcessorFinally
               /\ mgrCalls' = IF ~mgrOk THEN mgrCalls
                              ELSE LET cs == IF ApplyResult(req[r].rtype) = "applyEnvironmentUpdates"
                                             THEN ApplyEnvironmentUpdates(parsed.data)
                                             ELSE ApplySkyscraperTransformation(parsed.data)
                                   IN mgrCalls \o [i \in 1..Len(cs) |->
                                         [req |-> r, call |-> cs[i].call, arg |-> cs[i].arg,
                                          late |-> req[r].timedOut]]
               /\ req' = [req EXCEPT ![r].pc = "done", ![r].rTimer = FALSE, ![r].sTimer = FALSE,
                                     ![r].cb = @ \o <<IF mgrOk THEN "success" ELSE "error:apply",
                                                      "complete">>]
               /\ lastOp' = [op |-> "requestApplied", arg |-> "none",
                             ret |-> IF mgrOk THEN "success" ELSE "error"]
               /\ UNCHANGED <<apiKey, storedKey, nextReq, nonNlpVars>>

\* the test of the 20 s timer callback: it acts only while isProcessing is set
TimeoutActsNever(busy) == FALSE
TimeoutActs(busy) == busy

\* the 20 s timer of processInput fires
SafetyTimeout(r) ==
    /\ req[r].sTimer
    /\ req[r].age >= SafetyTimeoutMs
    /\ IF TimeoutActs(procBusy)
       THEN /\ procBusy' = FALSE
            /\ req' = [req EXCEPT ![r].sTimer = FALSE, ![r].timedOut = TRUE,
                                  ![r].cb = @ \o <<"error:safety", "complete">>,
                                  ![r].cbAtTimeout = Len(req[r].cb) + 2]
       ELSE /\ req' = [req EXCEPT ![r].sTimer = FALSE]
            /\ UNCHANGED procBusy
    /\ lastOp' = [op |-> "safetyTimeout", arg |-> "none", ret |-> "none"]
    /\ UNCHANGED <<routerBusy, apiKey, storedKey, nextReq, mgrCalls, nonNlpVars>>

\* time passes; a timer that is due fires before more time passes
TimerArmed(r) == req[r].rTimer \/ req[r].sTimer
TimerDue(r) == \/ RouterTimerDue(r)
               \/ req[r].sTimer /\ req[r].age >= SafetyTimeoutMs

AdvanceClock ==
    /\ \E r \in Reqs : TimerArmed(r)
    /\ \A r \in Reqs : ~TimerDue(r)
    /\ req' = [r \in Reqs |-> IF TimerArmed(r)
                              THEN [req[r] EXCEPT !.age = IF @ + ClockMs >= SafetyTimeoutMs
                                                          THEN SafetyTimeoutMs ELSE @ + ClockMs]
                              ELSE req[r]]
    /\ lastOp' = [op |-> "advanceClock", arg |-> "none", ret |-> "none"]
    /\ UNCHANGED <<procBusy, routerBusy, apiKey, storedKey, nextReq, mgrCalls, nonNlpVars>>

InitNlp ==
    /\ procBusy = FALSE
    /\ routerBusy = FALSE
    /\ apiKey = FALSE
    /\ storedKey = FALSE
    /\ req = [r \in Reqs |-> NoReq]
    /\ nextReq = 1
    /\ mgrCalls = <<>>

NextNlp ==
    \/ \E input \in Inputs : ProcessInput(input)
    \/ UpdateConfig
    \/ \E r \in Reqs, ok \in BOOLEAN : FetchResolves(r, ok)
    \/ \E r \in Reqs : FetchRejects(r)
    \/ \E r \in Reqs : RouterTimeout(r)
    \/ \E r \in Reqs : ErrorBodyRead(r)
    \/ \E r \in Reqs : BodyRejects(r)
    \/ \E r \in Reqs, c \in Contents, mgrOk \in BOOLEAN : BodyArrives(r, c, mgrOk)
    \/ \E r \in Reqs : SafetyTimeout(r)
    \/ AdvanceClock

\* ================================================== calls of single functions
NoOut == <<>>
\* results handed to applyEnvironmentUpdates: any set of fields of the
\* prompt's schema and a field outside it, each with a value; sky_color and
\* tree_count also with a value that tests false
FieldValue(field) ==
    CASE field = "sky_color" -> "#000000"
      [] field = "tree_type" -> "pine"
      [] field = "tree_count" -> "3"
      [] OTHER -> "given"
SchemaFields == {FieldOps[i].field : i \in 1..Len(FieldOps)} \cup {"tree_count"}
ResultFields == SchemaFields \cup {"mood"}
Results ==
    {[f \in dom |-> IF f \in empty THEN "" ELSE FieldValue(f)] :
        dom \in SUBSET ResultFields, empty \in SUBSET {"sky_color", "tree_count"}}

FnInputs ==
    {[fn |-> "determineRequestType", text |-> txt, commands |-> NoFields] : txt \in Texts}
    \cup {[fn |-> "applyEnvironmentUpdates", text |-> <<>>, commands |-> res] : res \in Results}
    \cup {[fn |-> "parseSimpleParameterResponse", text |-> str, commands |-> NoFields] :
              str \in ResponseTexts}

CallDetermineRequestType ==
    /\ fnIn.fn = "determineRequestType"
    /\ fnOut = NoOut
    /\ fnOut' = <<RequestTypeOf(fnIn.text)>>
    /\ UNCHANGED <<fnIn, nonFnVars>>

CallApplyEnvironmentUpdates ==
    /\ fnIn.fn = "applyEnvironmentUpdates"
    /\ fnOut = NoOut
    /\ fnOut' = <<[calls |-> ApplyEnvironmentUpdates(fnIn.commands),
                   changesApplied |-> ChangesApplied(fnIn.commands)]>>
    /\ UNCHANGED <<fnIn, nonFnVars>>

CallParseSimpleParameterResponse ==
    /\ fnIn.fn = "parseSimpleParameterResponse"
    /\ fnOut = NoOut
    /\ fnOut' = <<ParseResponse("simple_parameter", ContentOf(fnIn.text))>>
    /\ UNCHANGED <<fnIn, nonFnVars>>

InitFn ==
    /\ fnIn = [fn |-> "none", text |-> <<>>, commands |-> NoFields]
    /\ fnOut = NoOut

InitFnInputs ==
    /\ fnIn \in FnInputs
    /\ fnOut = NoOut

NextFn ==
    \/ CallDetermineRequestType
    \/ CallApplyEnvironmentUpdates
    \/ CallParseSimpleParameterResponse

InitQueue ==
    /\ queue = <<>>
    /\ isExecuting = FALSE
    /\ callbacks = <<>>
    /\ drainPc = "idle"
    /\ delayTimer = NoTimer
    /\ nextCmd = 1
    /\ qlog = <<>>
    /\ run = [state |-> "none", snapshot |-> <<>>, startLen |-> 0, endLen |-> 0,
             listeners |-> 0, nextDuring |-> FALSE, failed |-> 0]

Init ==
    /\ InitQueue
    /\ InitEnv
    /\ InitEval
    /\ InitNlp
    /\ InitDisp
    /\ InitFn
    /\ lastOp = [op |-> "init", arg |-> "none", ret |-> "none"]

NextQueue ==
    \/ \E k \in CmdKinds, d \in DelayArgs : AddCommand(k, d)
    \/ ClearQueue
    \/ \E k \in ListenerKinds : OnQueueEmpty(k)
    \/ ExecuteNext
    \/ ExecuteAll
    \/ DelayTick
    \/ DrainResume

SpecQueue == Init /\ [][NextQueue]_vars
SpecEnv == Init /\ [][NextEnv]_vars
SpecNlp == Init /\ [][NextNlp]_vars
SpecDisp == Init /\ [][NextDisp]_vars
SpecEnvKinds == Init /\ [][NextEnvKinds]_vars
SpecEnvAdd == Init /\ [][NextEnvAdd]_vars
SpecEnvIds == Init /\ [][NextEnvIds]_vars
SpecEnvFair == SpecEnv /\ WF_vars(AdvanceTime) /\ WF_vars(\E f \in fades : FadeTick(f))
\* the state in which a caller holds any snippet and any context
InitPure ==
    /\ InitQueue
    /\ InitEnv
    /\ InitEvalInputs
    /\ InitNlp
    /\ InitDisp
    /\ InitFn
    /\ lastOp = [op |-> "init", arg |-> "none", ret |-> "none"]

SpecEval == InitPure /\ [][NextEval]_vars

InitCalls ==
    /\ InitQueue
    /\ InitEnv
    /\ InitEval
    /\ InitNlp
    /\ InitDisp
    /\ InitFnInputs
    /\ lastOp = [op |-> "init", arg |-> "none", ret |-> "none"]
SpecFn == InitCalls /\ [][NextFn]_vars

\* ==================================================================== claims
\* the events of the current / last executeAll run, and those of one kind
RunEvents == SubSeq(qlog, run.startLen + 1, run.endLen)
EventsOf(lg, ev) == SelectSeq(lg, LAMBDA e : e.ev = ev)
IdsOf(lg) == [i \in 1..Len(lg) |-> lg[i].id]
Distinct(s) == \A i, j \in 1..Len(s) : i # j => s[i] # s[j]

\* C1: when an executeAll run on a queue of N >= 1 commands has finished,
\* every command that was queued at its start has been dispatched exactly
\* once, in the order of enqueueing; and, in a run that no executeNext call
\* interleaved with, the run itself made these dispatches and then called
\* every registered queue-empty listener exactly once, after the last
\* dispatch.
C1_DrainAllFifoOnce ==
    run.state = "done" =>
        LET disp == EventsOf(RunEvents, "dispatch")
            noti == EventsOf(RunEvents, "notify")
            n == Len(run.snapshot)
        IN /\ n >= 1
           /\ Len(disp) >= n
           /\ SubSeq(IdsOf(disp), 1, n) = run.snapshot
           /\ Distinct(IdsOf(EventsOf(qlog, "dispatch")))
           /\ ~run.nextDuring =>
                /\ \A i \in 1..Len(disp) : disp[i].by = "all"
                /\ IdsOf(noti) = [i \in 1..run.listeners |-> i]
                /\ RunEvents = disp \o noti

C1_Witness ==
    /\ run.state = "done"
    /\ ~run.nextDuring
    /\ Len(run.snapshot) >= 2
    /\ run.listeners >= 1
    /\ lastOp.op = "drainResume"

\* C8: a clearQueue call made while a drain is in progress leaves the queue
\* (contents and length) as it was, and a call made while no drain is in
\* progress empties it; every command queued at the start of a drain is
\* therefore dispatched by the time the drain has finished.
C8_ClearQueueGuard ==
    /\ [][lastOp'.op = "clearQueue" =>
            IF isExecuting THEN queue' = queue /\ Len(queue') = Len(queue)
                           ELSE queue' = <<>>]_vars
    /\ [](run.state = "done" =>
            \A i \in 1..Len(run.snapshot) :
                Cardinality({j \in 1..Len(qlog) :
                    qlog[j].ev = "dispatch" /\ qlog[j].id = run.snapshot[i]}) = 1)

C8_Witness ==
    /\ lastOp = [op |-> "clearQueue", arg |-> "none", ret |-> "rejected"]
    /\ drainPc = "delay"
    /\ Len(queue) >= 1

\* the trees of a fade-out closure, and whether a tree is inside a fade-out
FadeTrees(f) == Range(f.trees)
InFade(t) == \E f \in fades : t \in FadeTrees(f)
Without(ts, S) == SelectSeq(ts, LAMBDA t : t \notin S)

\* C2: a tree that is not inside an in-flight fade-out is in the trees
\* collection if and only if its group is attached to the scene.
C2_TreeTrackedIffAttached ==
    \A t \in allTrees : ~InFade(t) => ((t \in Range(trees)) <=> (t.obj \in scene))

\* C6: transformTreesToSkyscrapers called with M >= 1 tracked trees and a
\* snippet that throws appends exactly M skyscraper entities to the buildings
\* collection, the i-th at the position of the i-th tree and attached to the
\* scene; and while animation frames keep coming, a started fade-out leads to
\* a state where it has finished and the trees collection is empty.
C6_ThrowingSnippetTransform ==
    /\ [][\A sn \in EnvSnippets :
            (BodyThrows(sn, {}) /\ Len(trees) >= 1 /\ TransformTreesToSkyscrapers(Each(sn))) =>
                /\ Len(buildings') = Len(buildings) + Len(trees)
                /\ SubSeq(buildings', 1, Len(buildings)) = buildings
                /\ \A i \in 1..Len(trees) :
                      LET b == buildings'[Len(buildings) + i]
                      IN /\ b.pos = trees[i].pos
                         /\ b.type = "fantasy_skyscraper"
                         /\ b.id[1] = "skyscraper"
                         /\ b.obj \in scene']_vars
    /\ (fades # {}) ~> (fades = {} /\ Len(trees) = 0)

C6_Witness ==
    /\ nextFade > 1
    /\ fades = {}
    /\ Len(trees) = 0
    /\ Len(buildings) >= 2
    /\ \A i \in 1..Len(buildings) : buildings[i].mesh = "fallbackBox"
    /\ \E i, j \in 1..Len(buildings) : buildings[i].pos # buildings[j].pos
    /\ \A i \in 1..Len(buildings) : buildings[i].obj \in scene

\* C7: the last tick of a fade-out detaches and removes exactly the trees the
\* fade-out was started with; every other tracked tree (one added while the
\* fade-out was in flight) is still tracked and attached after it.
C7_FadeRemovesOnlyOriginals ==
    [][\A f \in fades :
          (f.elapsed >= FadeDuration /\ FadeTick(f)) =>
              /\ trees' = Without(trees, FadeTrees(f))
              /\ scene' = scene \ Objs(f.trees)]_vars

\* the calls of one CodeEvaluator function among those made on evalIn
CallsOf(fn) == SelectSeq(evalOut, LAMBDA r : r.fn = fn)
SnippetFails(sn, ctx) == ~sn.compiles \/ BodyThrows(sn, ctx)

\* C9: createMeshFromSnippet never raises and returns an Object3D; for a
\* snippet that does not compile, throws, or returns a value that is not an
\* Object3D it returns the box 3 x 30 x 3 of colour 0x8ecae6 at height 15,
\* and two calls with the same such snippet return equal meshes.
C9_CreateMeshNeverRaises ==
    LET rs == CallsOf("createMeshFromSnippet")
    IN \A i \in 1..Len(rs) :
          /\ rs[i].status = "returned"
          /\ rs[i].value.kind = "Object3D"
          /\ (SnippetFails(evalIn.snippet, evalIn.context)
                \/ evalIn.snippet.value.kind # "Object3D") =>
                /\ rs[i].value = [kind |-> "Object3D", geom |-> <<3, 30, 3>>,
                                  color |-> 9358054, y |-> 15]
                /\ \A j \in 1..Len(rs) : rs[j].value = rs[i].value

C9_Witness ==
    /\ Len(CallsOf("createMeshFromSnippet")) = 2
    /\ evalIn.snippet.compiles
    /\ ~BodyThrows(evalIn.snippet, evalIn.context)
    /\ evalIn.snippet.value.kind = "undefined"

C3_LateResultDiscarded ==
    \A r \in Reqs :
        req[r].timedOut =>
            /\ Len(req[r].cb) = req[r].cbAtTimeout
            /\ \A i \in 1..Len(mgrCalls) : mgrCalls[i].req = r => ~mgrCalls[i].late

\* ---------------------------------------------------------------- C4
\* C4: a processInput call with valid input made while the processor's busy
\* flag is set gets the busy error and the completion callback and nothing
\* else, starts no router request, and leaves the busy flags, every other
\* call and the applied manager operations as they were; a call that reached
\* the router ends with exactly one success or error of its own after the
\* start callback, besides what the safety timeout reported.
C4_BusyCallRejected ==
    [][\A r \in Reqs :
          (procBusy /\ req[r].pc = "new" /\ req'[r].pc # "new" /\ lastOp'.arg = "valid") =>
              /\ req'[r].pc = "rejected"
              /\ req'[r].cb = <<"error:busy", "complete">>
              /\ ~Outstanding(r)'
              /\ procBusy'
              /\ routerBusy' = routerBusy
              /\ mgrCalls' = mgrCalls
              /\ \A q \in Reqs \ {r} : req'[q] = req[q]]_vars

C4_Witness ==
    \E r1, r2 \in Reqs :
        /\ r1 < r2
        /\ req[r2].pc = "rejected"
        /\ req[r2].cb = <<"error:busy", "complete">>
        /\ req[r1].pc = "done"
        /\ req[r1].cb = <<"start", "success", "complete">>
        /\ \E i \in 1..Len(mgrCalls) : mgrCalls[i].req = r1

\* ---------------------------------------------------------------- C5
\* C5: at every moment at most one request has an external chat-completion
\* call outstanding, also when the processor admitted a new call after its
\* safety timeout had reset the processor's busy flag.
C5_OneOutstandingCall == Cardinality({r \in Reqs : Outstanding(r)}) <= 1

C5_Witness ==
    \E r1, r2 \in Reqs :
        /\ req[r1].timedOut
        /\ Outstanding(r1)
        /\ req[r2].pc = "done"
        /\ req[r2].cb = <<"start", "error:busy", "complete">>


\* ---------------------------------------------------------------- C11
\* C11 (as stated): executeCommand on a name that was never registered
\* returns false, invokes no function and raises nothing.
C11_UnregisteredReturnsFalse ==
    (dcall.invoked # "init" /\ dcall.commandName \notin DOMAIN commandMap) =>
        (~dcall.ret /\ dcall.invoked = "undefined" /\ ~dcall.raised)

\* ---------------------------------------------------------------- C12
\* C12: when the handler registered for the command name throws,
\* executeCommand returns false and no exception leaves it.
C12_ThrowingHandlerCaught ==
    [][(dcall' # dcall
          /\ ParseCommandInput(dcall'.input).commandName \in DOMAIN commandMap
          /\ commandMap[ParseCommandInput(dcall'.input).commandName] = "throws") =>
             (~dcall'.ret /\ ~dcall'.raised /\ dcall'.invoked = "throws")]_vars

C12_Witness ==
    /\ dcall.invoked = "throws"
    /\ dcall.commandName = <<"x">>
    /\ dcall.parameter # NullParameter
    /\ ~dcall.ret

\* ---------------------------------------------------------------- C13
\* C13 (as stated): for an input with a colon parseCommandInput returns the
\* text before the first colon as the name and the whole text after it as
\* the parameter, both trimmed; for an input with no colon the trimmed input
\* and the parameter null.
FirstColon(str) ==
    CHOOSE k \in 1..Len(str) : str[k] = ":" /\ \A j \in 1..(k - 1) : str[j] # ":"
C13_ParseKeepsWholeParam ==
    dcall.invoked # "init" =>
        IF \E i \in 1..Len(dcall.input) : dcall.input[i] = ":"
        THEN /\ dcall.commandName = Trim(SubSeq(dcall.input, 1, FirstColon(dcall.input) - 1))
             /\ dcall.parameter =
                   <<Trim(SubSeq(dcall.input, FirstColon(dcall.input) + 1, Len(dcall.input)))>>
        ELSE /\ dcall.commandName = Trim(dcall.input)
             /\ dcall.parameter = NullParameter


\* ---------------------------------------------------------------- C14
\* C14: determineRequestType answers code_generator exactly when the
\* lower-cased text contains a skyscraper keyword and a tree keyword and one
\* of the verbs replace / transform / change / turn, and simple_parameter
\* otherwise.
HasAny(txt, keywords) ==
    \E i \in 1..Len(txt), k \in keywords : k \in SubstringsOf(LowerWord(txt[i]))
C14_SkyscraperNeedsAllThree ==
    (fnIn.fn = "determineRequestType" /\ fnOut # NoOut) =>
        /\ fnOut[1] \in {"code_generator", "simple_parameter"}
        /\ fnOut[1] = "code_generator" <=>
              /\ HasAny(fnIn.text, {"skyscraper", "skyscrapers"})
              /\ HasAny(fnIn.text, {"tree", "trees"})
              /\ HasAny(fnIn.text, {"replace", "transform", "change", "turn"})

C14_Witness ==
    /\ fnIn.fn = "determineRequestType"
    /\ fnIn.text = <<"Turn", "TREES", "Skyscrapers">>
    /\ fnOut = <<"code_generator">>


\* ---------------------------------------------------------------- C15
\* C15 (as stated): for a result with at least one field of the schema,
\* applyEnvironmentUpdates makes exactly the manager calls of the fields
\* present, each once (tree_type and tree_count share the spawn call), a
\* present sky_color giving one changeSkyColor with its value, and no other
\* manager call.
OpOfField(field) ==
    IF field = "tree_count" THEN "spawnTreeType"
    ELSE LET i == CHOOSE k \in 1..Len(FieldOps) : FieldOps[k].field = field
         IN FieldOps[i].call
CallNames(calls) == {calls[i].call : i \in 1..Len(calls)}
C15_ExactlyFieldsPresent ==
    (fnIn.fn = "applyEnvironmentUpdates" /\ fnOut # NoOut
        /\ DOMAIN fnIn.commands \cap SchemaFields # {}) =>
        /\ CallNames(fnOut[1].calls) = {OpOfField(f) : f \in DOMAIN fnIn.commands \cap SchemaFields}
        /\ Cardinality(CallNames(fnOut[1].calls)) = Len(fnOut[1].calls)
        /\ "sky_color" \in DOMAIN fnIn.commands =>
              \E i \in 1..Len(fnOut[1].calls) :
                  fnOut[1].calls[i] = [call |-> "changeSkyColor", arg |-> fnIn.commands["sky_color"],
                                       via |-> "manager"]

\* ---------------------------------------------------------------- C16
\* C16 (as stated): the default scene (sky #87CEEB, ground #4CAF50, five oak
\* trees) is applied exactly when the result holds no field of the schema; a
\* result with only fields outside the schema gets it like the empty result.
C16_DefaultIffNoField ==
    (fnIn.fn = "applyEnvironmentUpdates" /\ fnOut # NoOut) =>
        (fnOut[1].calls = DefaultScene <=> DOMAIN fnIn.commands \cap SchemaFields = {})


\* ---------------------------------------------------------------- C17
\* C17: spawnTreeType(type, n), for a known or unknown type and n >= 0,
\* leaves exactly n trees in the collection, all of them created by this call
\* and attached to the scene, and none of the trees tracked before the call
\* is still tracked or attached.
C17_SpawnReplacesTrees ==
    [][\A t \in TreeTypes, poss \in SpawnLists :
          SpawnTreeType(t, poss) =>
              /\ Len(trees') = Len(poss)
              /\ Cardinality(Range(trees')) = Len(poss)
              /\ \A i \in 1..Len(trees') :
                    /\ trees'[i] \notin allTrees
                    /\ trees'[i].obj >= nextObj
                    /\ trees'[i].obj \in scene'
                    /\ trees'[i].pos = poss[i]
              /\ \A old \in Range(trees) : old.obj \notin scene' /\ old \notin Range(trees')]_vars

C17_Witness ==
    /\ Len(trees) = 2
    /\ trees[2].obj = trees[1].obj + 1
    /\ trees[2].id[2] = trees[1].id[2] + 1
    /\ Objs(trees) \subseteq scene
    /\ \E old \in allTrees :
          /\ old.obj < trees[1].obj
          /\ old \notin Range(trees)
          /\ old.obj \notin scene


\* ---------------------------------------------------------------- C18
\* C18: no collection holds two entities with the same id, every id in a
\* collection is below its kind's counter, the counters never decrease (also
\* across clearAll), and an entity that enters a collection carries an id at
\* or above the value its counter had before the operation: no id is handed
\* out twice.
CounterOf(tag) == IF tag = "skyscraper" THEN "building" ELSE tag
IdsFresh(kind, before, after, counter, counterNew) ==
    /\ counterNew >= counter
    /\ \A i \in 1..Len(after) :
          /\ CounterOf(after[i].id[1]) = kind
          /\ after[i].id[2] < counterNew
          /\ \A j \in 1..Len(after) : after[i].id = after[j].id => i = j
          /\ (\A j \in 1..Len(before) : before[j] # after[i]) => after[i].id[2] >= counter
C18_IdsNeverReused ==
    [][/\ IdsFresh("tree", trees, trees', idCounter["tree"], idCounter'["tree"])
       /\ IdsFresh("building", buildings, buildings',
                   idCounter["building"], idCounter'["building"])
       /\ \A k \in OtherKinds :
             IdsFresh(k, others[k], others'[k], idCounter[k], idCounter'[k])]_vars

C18_Witness ==
    /\ idCounter["tree"] >= 2
    /\ idCounter["building"] >= 2
    /\ \E k \in OtherKinds : idCounter[k] >= 1
    /\ Len(trees) = 1
    /\ trees[1].id = <<"tree", 1>>
    /\ \E i \in 1..Len(buildings) : buildings[i].id[2] >= 1


\* ---------------------------------------------------------------- C19
\* the span from the first opening brace to the last closing brace
BraceSpanMatch(str) ==
    LET hasBraces == \E i, j \in 1..Len(str) : i < j /\ str[i] = "{" /\ str[j] = "}"
        first == CHOOSE i \in 1..Len(str) : str[i] = "{" /\ \A k \in 1..(i - 1) : str[k] # "{"
        last == CHOOSE j \in 1..Len(str) : str[j] = "}" /\ \A k \in (j + 1)..Len(str) : str[k] # "}"
    IN IF hasBraces /\ first < last
       THEN [found |-> TRUE, span |-> SubSeq(str, first, last)]
       ELSE NoMatch

\* C19 (as stated): for a response text that JSON.parse rejects, the parser
\* returns the object of the brace span (first opening to last closing brace)
\* when that span is valid JSON, and reports a parse error only when there is
\* no such span or the span does not parse.
C19_BraceSpanRecovered ==
    (fnIn.fn = "parseSimpleParameterResponse" /\ fnOut # NoOut /\ ~JsonParse(fnIn.text).ok) =>
        LET span == BraceSpanMatch(fnIn.text)
        IN /\ fnOut[1].ok <=> (span.found /\ JsonParse(span.span).ok)
           /\ fnOut[1].ok => fnOut[1].data = JsonParse(span.span).fields


\* ---------------------------------------------------------------- C20
\* C20: a request that reaches routeCommand while neither the router's key
\* nor the persisted key is set gets the credential error, starts no external
\* call and leaves the router's busy flag unset (and the processor's flag
\* released); a request made when no request is in progress and a key is
\* available is accepted and starts its external call.
C20_NoCredentialNoCall ==
    [][\A r \in Reqs :
          (req[r].pc = "new" /\ req'[r].pc # "new" /\ lastOp'.arg = "valid" /\ ~procBusy) =>
              IF ~apiKey /\ ~storedKey
              THEN /\ req'[r].cb = <<"start", "error:nokey", "complete">>
                   /\ ~Outstanding(r)'
                   /\ ~routerBusy'
                   /\ ~procBusy'
                   /\ \A q \in Reqs : ~Outstanding(q)'
              ELSE ~routerBusy => (req'[r].pc = "fetch" /\ routerBusy')]_vars

C20_Witness ==
    \E r1, r2 \in Reqs :
        /\ r1 < r2
        /\ req[r1].cb = <<"start", "error:nokey", "complete">>
        /\ req[r2].pc = "fetch"
        /\ routerBusy


\* ---------------------------------------------------------------- C21
\* C21: on the code-generator path a parsed response without a code snippet
\* makes the request fail with a schema error reported to the caller; no
\* manager operation is applied (transformTreesToSkyscrapers is not called)
\* and the trees and buildings collections stay as they were.
C21_MissingSnippetFails ==
    [][\A r \in Reqs, c \in Contents, mgrOk \in BOOLEAN :
          (/\ req[r].rtype = "code_generator"
           /\ c.json /\ ~Truthy(c.fields, "javascript_code_snippet")
           /\ BodyArrives(r, c, mgrOk)) =>
              /\ req'[r].pc = "done"
              /\ req'[r].cb = req[r].cb \o <<"error:schema", "complete">>
              /\ mgrCalls' = mgrCalls
              /\ trees' = trees /\ buildings' = buildings]_vars

C21_Witness ==
    \E r \in Reqs :
        /\ req[r].rtype = "code_generator"
        /\ req[r].cb = <<"start", "error:schema", "complete">>
        /\ mgrCalls = <<>>

\* ---------------------------------------------------------------- C22
\* C22: when a request that the processor accepted ends (result applied,
\* router error, error while applying), its safety timer is cancelled and the
\* processor's busy flag is clear; and a valid processInput made while the
\* flag is clear is not rejected by the processor's busy guard.
C22_ProcessorReturnsToIdle ==
    [][\A r \in Reqs :
          /\ (req[r].pc # "done" /\ req'[r].pc = "done") =>
                (~procBusy' /\ ~req'[r].sTimer /\ req'[r].cb[Len(req'[r].cb)] = "complete")
          /\ (req[r].pc = "new" /\ req'[r].pc # "new" /\ lastOp'.arg = "valid" /\ ~procBusy) =>
                (req'[r].pc # "rejected" /\ req'[r].cb[1] = "start")]_vars

C22_Witness ==
    \E r1, r2 \in Reqs :
        /\ r1 < r2
        /\ req[r1].cb = <<"start", "error:apply", "complete">>
        /\ req[r2].cb = <<"start", "success", "complete">>
        /\ ~procBusy

\* ---------------------------------------------------------------- C23
\* C23: when the 20 s safety timer of a request fires while the request has
\* not finished, the processor's busy flag becomes clear and the caller gets
\* the timeout error and then the completion callback, while the external
\* call stays outstanding and the router stays busy.
C23_SafetyTimeoutForcesIdle ==
    [][\A r \in Reqs :
          (req[r].sTimer /\ req[r].age >= SafetyTimeoutMs /\ Outstanding(r)
             /\ ~req'[r].sTimer /\ Outstanding(r)') =>
              /\ ~procBusy'
              /\ req'[r].cb = req[r].cb \o <<"error:safety", "complete">>
              /\ routerBusy' /\ routerBusy]_vars

C23_Witness ==
    \E r \in Reqs :
        /\ req[r].cb = <<"start", "error:safety", "complete">>
        /\ Outstanding(r)
        /\ ~procBusy
        /\ routerBusy

\* the error reports among a request's callbacks
ErrorsOf(cbs) == SelectSeq(cbs, LAMBDA x : x \notin {"start", "success", "complete"})

\* ---------------------------------------------------------------- C24
\* C24: when a request the router accepted ends (success, transport error,
\* timeout, parse error, schema error) the router's busy flag is clear; and a
\* request the router rejects as busy leaves the flag set for the request in
\* flight.
C24_RouterFlagReleased ==
    [][\A r \in Reqs :
          /\ (Outstanding(r) /\ ~Outstanding(r)') => (req'[r].pc = "done" /\ ~routerBusy')
          /\ (req[r].pc = "new" /\ req'[r].cb = <<"start", "error:busy", "complete">>) =>
                (routerBusy /\ routerBusy' /\ \E q \in Reqs \ {r} : Outstanding(q)')]_vars

C24_Witness ==
    \E r1, r2 \in Reqs :
        /\ req[r1].pc = "done"
        /\ ErrorsOf(req[r1].cb) = <<"error:safety", "error:parse">>
        /\ req[r2].cb = <<"start", "error:busy", "complete">>
        /\ ~routerBusy

\* ---------------------------------------------------------------- C26
\* C26: when the router's 15 s timer fires while the fetch is pending, the
\* request ends with the router's timeout error; this happens before the
\* 20 s safety timer can fire, so the caller has received exactly one error
\* report for the request.
C26_RouterTimeoutOneError ==
    [][\A r \in Reqs :
          RouterTimeout(r) =>
              /\ req'[r].pc = "done"
              /\ req'[r].cb = <<"start", "error:timeout", "complete">>
              /\ Len(ErrorsOf(req'[r].cb)) = 1
              /\ ~req'[r].timedOut
              /\ ~req'[r].sTimer]_vars

C26_Witness ==
    \E r \in Reqs :
        /\ req[r].pc = "done"
        /\ req[r].age >= RouterTimeoutMs
        /\ req[r].age < SafetyTimeoutMs
        /\ req[r].cb = <<"start", "error:timeout", "complete">>


\* the events a step appends to the queue's log, and the listener numbering
Added == SubSeq(qlog', Len(qlog) + 1, Len(qlog'))
AllListeners == [i \in 1..Len(callbacks) |-> i]
DrainStep == (ExecuteAll /\ ~isExecuting /\ Len(queue) > 0) \/ DrainResume

\* ---------------------------------------------------------------- C25
\* C25: an executeAll call made while a drain is in progress returns false,
\* dispatches and removes nothing and leaves the busy flag of the running
\* drain set; an executeAll call on an empty queue returns false, leaves the
\* busy flag clear and calls no queue-empty listener.
C25_DrainGuards ==
    [][ExecuteAll =>
          /\ isExecuting =>
                /\ lastOp'.ret = "false"
                /\ queue' = queue /\ qlog' = qlog
                /\ isExecuting' /\ drainPc' = drainPc /\ delayTimer' = delayTimer
          /\ (~isExecuting /\ Len(queue) = 0) =>
                /\ lastOp'.ret = "false"
                /\ ~isExecuting'
                /\ queue' = queue /\ qlog' = qlog]_vars

C25_Witness ==
    /\ lastOp.op = "executeAll" /\ lastOp.ret = "false"
    /\ isExecuting /\ drainPc = "delay"
    /\ Len(queue) >= 2

\* ---------------------------------------------------------------- C27
\* C27: executeNext on a non-empty queue removes exactly the head command,
\* dispatches it once, returns what the dispatcher returned for it, and calls
\* every queue-empty listener once exactly when the queue is empty after the
\* removal; on an empty queue it returns false and dispatches and notifies
\* nothing.
C27_ExecuteNextPopsHead ==
    [][ExecuteNext =>
          IF Len(queue) = 0
          THEN lastOp'.ret = "false" /\ qlog' = qlog /\ queue' = queue
          ELSE /\ queue' = Tail(queue)
               /\ lastOp'.ret = "true" <=> Head(queue).kind = "ok"
               /\ lastOp'.ret \in {"true", "false"}
               /\ SubSeq(qlog', 1, Len(qlog)) = qlog
               /\ EventsOf(Added, "dispatch") =
                     <<[ev |-> "dispatch", id |-> Head(queue).id, by |-> "next"]>>
               /\ Added[1].ev = "dispatch"
               /\ IdsOf(EventsOf(Added, "notify")) =
                     IF Len(queue') = 0 THEN AllListeners ELSE <<>>]_vars

C27_Witness ==
    /\ lastOp.op = "executeNext" /\ lastOp.ret = "true"
    /\ queue = <<>>
    /\ Len(callbacks) = 2
    /\ Len(qlog) >= 4
    /\ qlog[Len(qlog) - 3].by = "next" /\ qlog[Len(qlog) - 3].ev = "dispatch"
    /\ qlog[Len(qlog) - 2].by = "next" /\ qlog[Len(qlog) - 2].ev = "dispatch"
    /\ qlog[Len(qlog) - 1] = [ev |-> "notify", id |-> 1, by |-> "next"]
    /\ qlog[Len(qlog)] = [ev |-> "notify", id |-> 2, by |-> "next"]

\* ---------------------------------------------------------------- C28
\* C28: when executeAll suspends after dispatching a command, the timer it
\* waits on carries that command's own delay; the drain dispatches its next
\* command only when that time has been waited; and the step of the drain
\* that dispatches the last command also notifies the listeners and clears
\* the busy flag, with no timer armed.
C28_DelayBetweenNotAfter ==
    [][/\ (DrainStep /\ drainPc' = "delay") =>
            /\ Len(queue') > 0
            /\ Added # <<>>
            /\ LET last == Added[Len(Added)]
               IN /\ last.ev = "dispatch" /\ last.by = "all"
                  /\ \E i \in 1..Len(queue) :
                        /\ queue[i].id = last.id
                        /\ queue[i].delay > 0
                        /\ delayTimer' = [delay |-> queue[i].delay, waited |-> 0]
       /\ (drainPc = "delay" /\ \E i \in 1..Len(Added) : Added[i].by = "all") =>
            delayTimer.waited >= delayTimer.delay
       /\ (DrainStep /\ queue' = <<>> /\ EventsOf(Added, "dispatch") # <<>>) =>
            /\ drainPc' = "idle"
            /\ ~isExecuting'
            /\ delayTimer' = NoTimer
            /\ IdsOf(EventsOf(Added, "notify")) = AllListeners]_vars

C28_Witness ==
    /\ lastOp.op = "drainResume"
    /\ drainPc = "delay"
    /\ delayTimer.delay = 50 /\ delayTimer.waited >= 50
    /\ Len(qlog) = 2
    /\ qlog[1].by = "all" /\ qlog[2].by = "all"
    /\ Len(queue) = 1

\* ---------------------------------------------------------------- C29
\* C29: whenever the queue-empty notification is made, every registered
\* listener is called once, in registration order, whether or not some
\* listener throws; and the drain that makes the notification returns true
\* and leaves the busy flag clear.
C29_ListenersAllCalled ==
    [][/\ EventsOf(Added, "notify") # <<>> =>
            IdsOf(EventsOf(Added, "notify")) = AllListeners
       /\ (DrainStep /\ drainPc' = "idle") =>
            /\ IdsOf(EventsOf(Added, "notify")) = AllListeners
            /\ lastOp'.ret = "true"
            /\ ~isExecuting']_vars

C29_Witness ==
    /\ callbacks = <<"throws", "ok">>
    /\ lastOp.op = "drainResume" /\ lastOp.ret = "true"
    /\ ~isExecuting
    /\ Len(qlog) >= 2
    /\ qlog[Len(qlog) - 1] = [ev |-> "notify", id |-> 1, by |-> "all"]
    /\ qlog[Len(qlog)] = [ev |-> "notify", id |-> 2, by |-> "all"]


\* the evaluations of the snippet at which the try block of the loop fails
LoopBodyFails(ev) == CreateMeshFromSnippet(ev, {}).value = BrokenMesh

\* ---------------------------------------------------------------- C30
\* C30: transformTreesToSkyscrapers with M >= 1 tracked trees creates exactly
\* M skyscrapers, the i-th at the position of the i-th tree; the i-th is the
\* fallback skyscraper exactly when the loop body failed for the i-th tree,
\* whatever happened for the other trees; and every skyscraper created is
\* once in the buildings collection and newly attached to the scene.
C30_PerTreeFallback ==
    [][\A evals \in Evaluations(Len(trees)) :
          (Len(trees) >= 1 /\ TransformTreesToSkyscrapers(evals)) =>
              LET made == SubSeq(buildings', Len(buildings) + 1, Len(buildings'))
              IN /\ SubSeq(buildings', 1, Len(buildings)) = buildings
                 /\ Len(made) = Len(trees)
                 /\ \A i \in 1..Len(trees) :
                       /\ made[i].pos = trees[i].pos
                       /\ made[i].type = "fantasy_skyscraper"
                       /\ (made[i].mesh = "fallbackTower") <=> LoopBodyFails(evals[i])
                       /\ Cardinality({j \in 1..Len(buildings') :
                                          buildings'[j].obj = made[i].obj}) = 1
                       /\ made[i].obj \in scene' \ scene]_vars

C30_Witness ==
    /\ Len(buildings) = 2
    /\ buildings[1].mesh = "fallbackTower"
    /\ buildings[2].mesh = "snippetMesh"
    /\ buildings[1].pos # buildings[2].pos
    /\ {buildings[1].obj, buildings[2].obj} \subseteq scene
    /\ buildings[1].obj # buildings[2].obj
    /\ fades # {}


\* the six collections are empty; the scene objects of their entities
AllEmpty == trees = <<>> /\ buildings = <<>> /\ \A k \in OtherKinds : others[k] = <<>>
EntityObjs == Objs(trees) \cup Objs(buildings) \cup UNION {Objs(others[k]) : k \in OtherKinds}

\* ---------------------------------------------------------------- C31
\* C31: clearAll leaves the six collections empty and none of the entities
\* they held attached to the scene; and a tick of a fade-out, the last one
\* included, that runs when the collections are empty leaves them empty and
\* attaches nothing to the scene.
C31_ClearAllEmpties ==
    [][/\ ClearAll => (AllEmpty' /\ scene' \cap EntityObjs = {})
       /\ \A f \in fades :
             (AllEmpty /\ FadeTick(f)) => (AllEmpty' /\ scene' \subseteq scene)]_vars

C31_Witness ==
    /\ AllEmpty
    /\ idCounter["building"] >= 1
    /\ \E k \in OtherKinds : idCounter[k] >= 1
    /\ \E f \in fades :
          /\ f.elapsed >= FadeDuration
          /\ Len(f.trees) >= 1
          /\ Objs(f.trees) \cap scene = {}


\* ---------------------------------------------------------------- C32
\* C32: spawnBuildingType, for a known and for an unknown building type,
\* detaches every building tracked before the call and leaves exactly one
\* building in the collection, a new one of the requested type, attached to
\* the scene.
C32_SpawnReplacesBuildings ==
    [][\A bt \in BuildingTypes, pos \in Positions :
          SpawnBuildingType(bt, pos) =>
              /\ Len(buildings') = 1
              /\ buildings'[1].type = bt
              /\ buildings'[1].obj \in scene'
              /\ buildings'[1].obj \notin Objs(buildings)
              /\ Objs(buildings) \cap scene' = {}]_vars

C32_Witness ==
    /\ Len(buildings) = 1
    /\ buildings[1].type = "unknown-type"
    /\ buildings[1].obj \in scene
    /\ buildings[1].id = <<"building", 3>>
    /\ nextFade > 1


\* ---------------------------------------------------------------- C33
\* C33 (as stated): addTree called with a missing position or with one that
\* has no coordinates creates a tree at the origin {0,0,0}, attached to the
\* scene and recorded in the trees collection.
Origin == "{0,0,0}"
C33_BadPositionTolerated ==
    [][\A pos \in {Undefined, NoCoordinates} :
          AddTree(pos) =>
              /\ Len(trees') = Len(trees) + 1
              /\ trees'[Len(trees')].pos = Origin
              /\ trees'[Len(trees')].obj \in scene']_vars


\* ---------------------------------------------------------------- C34
\* C34: when the body of a code-generator request arrives with a code snippet
\* and the manager call succeeds, processInput makes exactly one manager
\* call, transformTreesToSkyscrapers with the snippet text of the response,
\* and reports success and completion; it makes no simple-parameter call and
\* no call of the default scene.
C34_SkyscraperResultApplied ==
    [][\A r \in Reqs, c \in Contents :
          (/\ req[r].rtype = "code_generator"
           /\ c.json /\ Truthy(c.fields, "javascript_code_snippet")
           /\ BodyArrives(r, c, TRUE)) =>
              /\ mgrCalls' = Append(mgrCalls,
                    [req |-> r, call |-> "transformTreesToSkyscrapers",
                     arg |-> c.fields["javascript_code_snippet"], late |-> req[r].timedOut])
              /\ req'[r].cb = req[r].cb \o <<"success", "complete">>]_vars

C34_Witness ==
    \E r \in Reqs :
        /\ req[r].rtype = "code_generator"
        /\ req[r].cb = <<"start", "success", "complete">>
        /\ mgrCalls = <<[req |-> r, call |-> "transformTreesToSkyscrapers",
                         arg |-> "other", late |-> FALSE]>>


\* the completion reports and the success or error reports among callbacks
Completions(cbs) == SelectSeq(cbs, LAMBDA x : x = "complete")
Outcomes(cbs) == SelectSeq(cbs, LAMBDA x : x \notin {"start", "complete"})

\* ---------------------------------------------------------------- C35
\* C35 (as stated): every processInput call invokes onComplete exactly once
\* and at most one of onSuccess and onError, on every path, the safety
\* timeout followed by a late completion of the external call included.
C35_CallbacksOnce ==
    \A r \in Reqs :
        /\ Len(Completions(req[r].cb)) <= 1
        /\ Len(Outcomes(req[r].cb)) <= 1
        /\ req[r].pc \in {"done", "rejected"} => Len(Completions(req[r].cb)) = 1


\* how often listener i was called between the start and the end of the run
CallsInRun(i) ==
    Cardinality({k \in (run.startLen + 1)..run.endLen :
                    qlog[k].ev = "notify" /\ qlog[k].id = i})

\* ---------------------------------------------------------------- C36
\* C36 (as stated): when an executeAll run has finished, every command was
\* dispatched exactly once and in the order of enqueueing, and every
\* queue-empty listener was called exactly once during the run, also when
\* executeNext was called during a delay of the run.
C36_OnceWithExecuteNext ==
    run.state = "done" =>
        LET ids == IdsOf(EventsOf(qlog, "dispatch"))
        IN /\ \A i, j \in 1..Len(ids) : i < j => ids[i] < ids[j]
           /\ \A i \in 1..run.listeners : CallsInRun(i) = 1


\* the state right after an executeAll run has returned true; the commands
\* enqueued while that run was waiting in a delay
JustFinished == run.state = "done" /\ lastOp.op \in {"executeAll", "drainResume"}
                   /\ lastOp.ret = "true"
LastOfSnapshot == CHOOSE x \in Range(run.snapshot) : \A y \in Range(run.snapshot) : y <= x
LateCommands == (LastOfSnapshot + 1)..(nextCmd - 1)

\* ---------------------------------------------------------------- C37
\* C37: when an executeAll run returns, every command enqueued while it was
\* waiting in a delay has been dispatched during the run (by the run itself
\* when no executeNext call interleaved), after every command enqueued
\* before it, and the run's queue-empty notification comes after the last
\* dispatch.
C37_LateCommandDrained ==
    JustFinished =>
        LET disp == EventsOf(RunEvents, "dispatch")
            ids == IdsOf(disp)
        IN /\ \A c \in LateCommands :
                 \E k \in 1..Len(disp) :
                    disp[k].id = c /\ (~run.nextDuring => disp[k].by = "all")
           /\ \A i, j \in 1..Len(ids) : i < j => ids[i] < ids[j]
           /\ \A i, j \in 1..Len(RunEvents) :
                 (RunEvents[i].ev = "notify" /\ RunEvents[i].by = "all"
                    /\ RunEvents[j].ev = "dispatch") => j < i

C37_Witness ==
    /\ JustFinished
    /\ ~run.nextDuring
    /\ LateCommands # {}
    /\ run.listeners >= 1
    /\ Len(run.snapshot) >= 2


\* ---------------------------------------------------------------- C38
\* C38 (as stated): a transform of the trees creates a building or skyscraper
\* only for the tracked trees that are not already being faded out by an
\* earlier transform.
C38_NoSecondTransform ==
    [][\A evals \in Evaluations(Len(trees)), t \in NewObjectTypes :
          (Len(trees) >= 1
             /\ (TransformTreesToSkyscrapers(evals) \/ TransformTreesToBuildings(t))) =>
              Len(buildings') - Len(buildings) =
                  Cardinality({i \in 1..Len(trees) : ~InFade(trees[i])})]_vars


\* ---------------------------------------------------------------- C39
\* C39: a segment of the drain dispatches the commands at the head of the
\* queue in order and stops only to await a positive delay with commands
\* left, never because a dispatch failed (unknown name, throwing handler);
\* when it has emptied the queue it calls every listener, clears the busy
\* flag and returns true.
C39_FailedDispatchContinues ==
    [][DrainStep =>
          LET ids == IdsOf(EventsOf(Added, "dispatch"))
              n == Len(ids)
          IN /\ ids = [i \in 1..n |-> queue[i].id]
             /\ queue' = SubSeq(queue, n + 1, Len(queue))
             /\ queue' # <<>> =>
                   (n >= 1 /\ queue[n].delay > 0 /\ drainPc' = "delay" /\ isExecuting')
             /\ queue' = <<>> =>
                   /\ lastOp'.ret = "true"
                   /\ ~isExecuting'
                   /\ IdsOf(EventsOf(Added, "notify")) = AllListeners]_vars

C39_Witness ==
    /\ JustFinished
    /\ ~run.nextDuring
    /\ Len(run.snapshot) = 3
    /\ run.failed >= 2
    /\ run.listeners >= 1
    /\ qlog[Len(qlog)].ev = "notify"

====
